---------------------------- MODULE Spec2Model ----------------------------
(***************************************************************************)
(* A model of rdns (src/src/dns): the byte buffer and the DNS name codec   *)
(* (buffer.rs), the message model (protocol.rs), the transport client      *)
(* (network.rs), the resolvers (resolver.rs) and the worker pool, the     *)
(* tasks of the UDP and TCP servers and the listening socket (server.rs).  *)
(*                                                                         *)
(* Conventions.  A byte is a number in 0..255, a string is the sequence of *)
(* its bytes (ASCII only, so that from_utf8_lossy is the identity and      *)
(* to_lowercase maps 'A'..'Z' to 'a'..'z').  A BytePacketBuffer is the     *)
(* record [buf, head, err]: buf holds the 512-byte array up to its last    *)
(* byte that was ever stored, the bytes after it being the zeros of        *)
(* BytePacketBuffer::new; err is "ok" until an operation returns Err, and  *)
(* every operation on a buffer whose err is not "ok" leaves it alone,      *)
(* which is what the ? operator of the callers does.  An ExtendingBuffer   *)
(* has the field vec besides and its buf is the Vec itself.                *)
(*                                                                         *)
(* Each subsystem has its own specification over its own variables; the    *)
(* variables of the other subsystems stay at their initial value.          *)
(***************************************************************************)
EXTENDS Integers, Sequences, FiniteSets, TLC

VARIABLES
    hdr, hwire, hback, hphase,           \* header codec
    qn, qb, ql, qphase,                  \* name codec
    pkt, wres, rres, cphase,             \* packet codec
    pid_seq, queries, socket, upstream, jobs, callers,    \* transport client
    zone, query, mode, frames, outcome, outbound,    \* resolvers
    receiver, lock, workers, incoming, pool,    \* worker pool
    transport, stream_in, req_buffer, request, result, response, res_buffer,
    replies, resolves, io, tpc,          \* a task of a server
    socket_ptr, senders, accepted,       \* listening socket of the UDP server
    call, args, ret                      \* a call of one function

headerVars == <<hdr, hwire, hback, hphase>>
qnameVars == <<qn, qb, ql, qphase>>
codecVars == <<pkt, wres, rres, cphase>>
clientVars == <<pid_seq, queries, socket, upstream, jobs, callers>>
resolverVars == <<zone, query, mode, frames, outcome, outbound>>
poolVars == <<receiver, lock, workers, incoming, pool>>
taskVars == <<transport, stream_in, req_buffer, request, result, response, res_buffer,
              replies, resolves, io, tpc>>
listenVars == <<socket_ptr, senders, accepted>>
callVars == <<call, args, ret>>
vars == <<hdr, hwire, hback, hphase, qn, qb, ql, qphase, pkt, wres, rres, cphase,
          pid_seq, queries, socket, upstream, jobs, callers,
          zone, query, mode, frames, outcome, outbound,
          receiver, lock, workers, incoming, pool,
          transport, stream_in, req_buffer, request, result, response, res_buffer,
          replies, resolves, io, tpc, socket_ptr, senders, accepted, call, args, ret>>

\* what the actions of one subsystem leave alone
notHeader == <<qnameVars, codecVars, clientVars, resolverVars, poolVars,
    taskVars, listenVars, callVars>>
notQname == <<headerVars, codecVars, clientVars, resolverVars, poolVars,
    taskVars, listenVars, callVars>>
notCodec == <<headerVars, qnameVars, clientVars, resolverVars, poolVars,
    taskVars, listenVars, callVars>>
notClient == <<headerVars, qnameVars, codecVars, resolverVars, poolVars,
    taskVars, listenVars, callVars>>
notResolver == <<headerVars, qnameVars, codecVars, clientVars, poolVars,
    taskVars, listenVars, callVars>>
notPool == <<headerVars, qnameVars, codecVars, clientVars, resolverVars,
    taskVars, listenVars, callVars>>
notTask == <<headerVars, qnameVars, codecVars, clientVars, resolverVars, poolVars,
    listenVars, callVars>>
notListen == <<headerVars, qnameVars, codecVars, clientVars, resolverVars, poolVars,
    taskVars, callVars>>
notCall == <<headerVars, qnameVars, codecVars, clientVars, resolverVars, poolVars,
    taskVars, listenVars>>

\* the value of the variables of a subsystem that is not running
Idle == "idle"

CallIdle == call = Idle /\ args = Idle /\ ret = Idle

\* the other subsystems while one function is called
OthersIdle ==
    /\ hdr = Idle /\ hwire = Idle /\ hback = Idle /\ hphase = Idle
    /\ qn = Idle /\ qb = Idle /\ ql = Idle /\ qphase = Idle
    /\ pkt = Idle /\ wres = Idle /\ rres = Idle /\ cphase = Idle
    /\ pid_seq = Idle /\ queries = Idle /\ socket = Idle /\ upstream = Idle
    /\ jobs = Idle /\ callers = Idle
    /\ zone = Idle /\ query = Idle /\ mode = Idle /\ frames = Idle
    /\ outcome = Idle /\ outbound = Idle
    /\ receiver = Idle /\ lock = Idle /\ workers = Idle /\ incoming = Idle
    /\ pool = Idle
    /\ transport = Idle /\ stream_in = Idle /\ req_buffer = Idle /\ request = Idle
    /\ result = Idle /\ response = Idle /\ res_buffer = Idle /\ replies = Idle
    /\ resolves = Idle /\ io = Idle /\ tpc = Idle
    /\ socket_ptr = Idle /\ senders = Idle /\ accepted = Idle

----------------------------------------------------------------------------
(* Program constants                                                       *)

MAX_SIZE == 512
MAX_LABEL_LEN == 63

Ok == "ok"
EndOfBuffer == "End of buffer"
LabelTooLong == "Label exceeds maximum length"
Panic == "panic"
Diverges == "diverges"

DOT == 46

----------------------------------------------------------------------------
(* Bit arithmetic on unsigned integers                                     *)

RECURSIVE Pow2(_)
Pow2(n) == IF n = 0 THEN 1 ELSE 2 * Pow2(n - 1)

Bit(x, k) == (x \div Pow2(k)) % 2

RECURSIVE BitOr(_, _)
BitOr(a, b) ==
    IF a = 0 THEN b
    ELSE IF b = 0 THEN a
    ELSE (IF a % 2 = 1 \/ b % 2 = 1 THEN 1 ELSE 0) + 2 * BitOr(a \div 2, b \div 2)

RECURSIVE BitAnd(_, _)
BitAnd(a, b) ==
    IF a = 0 \/ b = 0 THEN 0
    ELSE (IF a % 2 = 1 /\ b % 2 = 1 THEN 1 ELSE 0) + 2 * BitAnd(a \div 2, b \div 2)

RECURSIVE BitXor(_, _)
BitXor(a, b) ==
    IF a = 0 THEN b
    ELSE IF b = 0 THEN a
    ELSE (IF a % 2 # b % 2 THEN 1 ELSE 0) + 2 * BitXor(a \div 2, b \div 2)

\* `x << k` on a u8: the bits shifted out of the byte are lost
Shl8(x, k) == (x * Pow2(k)) % 256

AsU8(b) == IF b THEN 1 ELSE 0

Zeros(n) == [i \in 1..n |-> 0]

----------------------------------------------------------------------------
(* BytePacketBuffer (buffer.rs)                                            *)

NewBuffer == [buf |-> <<>>, head |-> 0, err |-> Ok]

Fail(s, e) == [s EXCEPT !.err = e]

\* ExtendingBuffer::new: buf is the Vec, whose length is the number of bytes
\* pushed; the field vec tells the two implementations of ByteBuffer apart
ExtendingBuffer_new == [buf |-> <<>>, head |-> 0, err |-> Ok, vec |-> TRUE]

IsExtending(s) == "vec" \in DOMAIN s

ReadBeyond == "Attempted read beyond buffer"
WriteBeyond == "Attempted write beyond buffer"

\* ExtendingBuffer::read indexes the Vec unchecked
ExtendingBuffer_read(s) ==
    IF s.head >= Len(s.buf) THEN [s |-> Fail(s, Panic), v |-> 0]
    ELSE [s |-> [s EXCEPT !.head = s.head + 1], v |-> s.buf[s.head + 1]]

\* ExtendingBuffer::write: buf.push(data); step(1)
ExtendingBuffer_write(s, data) ==
    [s EXCEPT !.buf = Append(s.buf, data), !.head = s.head + 1]

\* ExtendingBuffer::get tests the cursor and indexes with the offset
ExtendingBuffer_get(s, offset) ==
    IF s.head >= Len(s.buf) THEN [err |-> ReadBeyond, v |-> 0]
    ELSE IF offset >= Len(s.buf) THEN [err |-> Panic, v |-> 0]
    ELSE [err |-> Ok, v |-> s.buf[offset + 1]]

\* ExtendingBuffer::get_range: the slice is buf[offset..len], which panics
\* when offset is past len
ExtendingBuffer_get_range(s, offset, len) ==
    IF offset + len >= Len(s.buf) THEN [err |-> ReadBeyond, v |-> <<>>]
    ELSE IF offset > len THEN [err |-> Panic, v |-> <<>>]
    ELSE [err |-> Ok, v |-> SubSeq(s.buf, offset + 1, len)]

\* ExtendingBuffer::set tests the cursor and indexes with the offset
ExtendingBuffer_set(s, offset, data) ==
    IF s.head >= Len(s.buf) THEN Fail(s, WriteBeyond)
    ELSE IF offset >= Len(s.buf) THEN Fail(s, Panic)
    ELSE [s EXCEPT !.buf = [s.buf EXCEPT ![offset + 1] = data]]

\* VariableBuffer::new(n), the buffer of a TCP payload of n bytes: its reads
\* fail with a bounds error past the end of the payload (the type is used in
\* server.rs and network.rs; buffer.rs does not have it)
VariableBuffer_new(n) == [buf |-> [i \in 1..n |-> 0], head |-> 0, err |-> Ok, cap |-> n]

IsVariable(s) == "cap" \in DOMAIN s

VariableBuffer_read(s) ==
    IF s.head >= s.cap THEN [s |-> Fail(s, EndOfBuffer), v |-> 0]
    ELSE [s |-> [s EXCEPT !.head = s.head + 1], v |-> s.buf[s.head + 1]]

VariableBuffer_get(s, offset) ==
    IF offset >= s.cap THEN [err |-> EndOfBuffer, v |-> 0]
    ELSE [err |-> Ok, v |-> s.buf[offset + 1]]

VariableBuffer_get_range(s, start, len) ==
    IF start + len > s.cap THEN [err |-> EndOfBuffer, v |-> <<>>]
    ELSE [err |-> Ok, v |-> SubSeq(s.buf, start + 1, start + len)]

\* buf[off] of the 512-byte array, off < MAX_SIZE
At(buf, off) == IF off < Len(buf) THEN buf[off + 1] ELSE 0

\* buf[off] = val of the 512-byte array, off < MAX_SIZE
Store(buf, off, val) ==
    IF off < Len(buf) THEN [buf EXCEPT ![off + 1] = val]
    ELSE buf \o Zeros(off - Len(buf)) \o <<val>>

step(s, steps) == IF s.err # Ok THEN s ELSE [s EXCEPT !.head = s.head + steps]

seek(s, offset) == IF s.err # Ok THEN s ELSE [s EXCEPT !.head = offset]

\* A read returns the buffer after the call and the value read.  Where a
\* function goes on with what a call returned, the rest of the function is an
\* operator of its own that takes what the call returned.

\* read returns the buffer after the call and the byte read
read(s) ==
    IF s.err # Ok THEN [s |-> s, v |-> 0]
    ELSE IF IsExtending(s) THEN ExtendingBuffer_read(s)
    ELSE IF IsVariable(s) THEN VariableBuffer_read(s)
    ELSE IF s.head >= MAX_SIZE THEN [s |-> Fail(s, EndOfBuffer), v |-> 0]
    ELSE [s |-> [s EXCEPT !.head = s.head + 1], v |-> At(s.buf, s.head)]

\* `(self.read()? as u16) << 8 | self.read()? as u16`: high is what the
\* first read returned
read_u16_low(high) ==
    LET low == read(high.s) IN [s |-> low.s, v |-> high.v * 256 + low.v]

read_u16(s) == read_u16_low(read(s))

\* n calls of read_u16 one after the other: the buffer after them and the
\* values read, in order
RECURSIVE read_u16s(_, _, _)
read_u16s_next(r, n, acc) == read_u16s(r.s, n - 1, Append(acc, r.v))
read_u16s(s, n, acc) ==
    IF n = 0 THEN [s |-> s, v |-> acc] ELSE read_u16s_next(read_u16(s), n, acc)

\* A u32 is the pair of its high and its low 16 bits: U32(hi, lo) stands for
\* hi * 65536 + lo
U32(hi, lo) == <<hi, lo>>

\* `(self.read_u16()? as u32) << 16 | self.read_u16()? as u32`
read_u32_join(r) == [s |-> r.s, v |-> U32(r.v[1], r.v[2])]

read_u32(s) == read_u32_join(read_u16s(s, 2, <<>>))

write(s, val) ==
    IF s.err # Ok THEN s
    ELSE IF IsExtending(s) THEN ExtendingBuffer_write(s, val)
    ELSE IF s.head >= MAX_SIZE THEN Fail(s, EndOfBuffer)
    ELSE [s EXCEPT !.buf = Store(s.buf, s.head, val), !.head = s.head + 1]

write_u16(s, data) == write(write(s, (data \div 256) % 256), data % 256)

write_u32(s, data) == write_u16(write_u16(s, data[1]), data[2])

\* get and get_range return the error (Ok when none) and the value
get(s, offset) ==
    IF IsExtending(s) THEN ExtendingBuffer_get(s, offset)
    ELSE IF IsVariable(s) THEN VariableBuffer_get(s, offset)
    ELSE IF offset >= MAX_SIZE THEN [err |-> EndOfBuffer, v |-> 0]
    ELSE [err |-> Ok, v |-> At(s.buf, offset)]

get_range(s, start, len) ==
    IF IsExtending(s) THEN ExtendingBuffer_get_range(s, start, len)
    ELSE IF IsVariable(s) THEN VariableBuffer_get_range(s, start, len)
    ELSE IF start + len >= MAX_SIZE THEN [err |-> EndOfBuffer, v |-> <<>>]
    ELSE [err |-> Ok, v |-> [i \in 1..len |-> At(s.buf, start + i - 1)]]

\* set indexes the array unchecked: an index past the array panics
set(s, pos, val) ==
    IF s.err # Ok THEN s
    ELSE IF IsExtending(s) THEN ExtendingBuffer_set(s, pos, val)
    ELSE IF pos >= MAX_SIZE THEN Fail(s, Panic)
    ELSE [s EXCEPT !.buf = Store(s.buf, pos, val)]

set_u16(s, offset, data) == set(set(s, offset, (data \div 256) % 256), offset + 1, data % 256)

----------------------------------------------------------------------------
(* The domain name codec (buffer.rs)                                       *)

\* str::to_lowercase on ASCII
LowerByte(b) == IF b >= 65 /\ b <= 90 THEN b + 32 ELSE b
Lower(str) == [i \in 1..Len(str) |-> LowerByte(str[i])]

\* qname.split('.'): the pieces between the dots; the empty string splits
\* into one empty piece and a trailing dot ends the list with an empty piece
DotsOf(str) == {i \in 1..Len(str) : str[i] = DOT}

\* the position of the k-th dot of str; 0 for k = 0 and Len(str) + 1 past the last
DotAt(str, k) ==
    IF k = 0 THEN 0
    ELSE IF k > Cardinality(DotsOf(str)) THEN Len(str) + 1
    ELSE CHOOSE i \in DotsOf(str) : Cardinality({j \in DotsOf(str) : j < i}) = k - 1

Split(str) ==
    [k \in 1..(Cardinality(DotsOf(str)) + 1) |->
        SubSeq(str, DotAt(str, k - 1) + 1, DotAt(str, k) - 1)]

\* `for label_byte in label.as_bytes() { self.write(*label_byte)?; }`: the
\* bytes are stored one by one until one does not fit
write_bytes(s, bytes) ==
    IF s.err # Ok \/ bytes = <<>> THEN s
    ELSE IF s.head + Len(bytes) <= MAX_SIZE
    THEN [s EXCEPT !.buf = SubSeq(s.buf, 1, s.head) \o Zeros(s.head - Len(s.buf))
                           \o bytes \o SubSeq(s.buf, s.head + Len(bytes) + 1, Len(s.buf)),
                   !.head = s.head + Len(bytes)]
    ELSE IF s.head >= MAX_SIZE THEN Fail(s, EndOfBuffer)
    ELSE [s EXCEPT !.buf = SubSeq(s.buf, 1, s.head) \o Zeros(s.head - Len(s.buf))
                           \o SubSeq(bytes, 1, MAX_SIZE - s.head),
                   !.head = MAX_SIZE, !.err = EndOfBuffer]

\* the loop of write_qname with the length byte written before the length
\* of the label is tested
RECURSIVE write_labels_length_first(_, _, _)
write_labels_length_first(s, labels, i) ==
    IF i > Len(labels) \/ s.err # Ok THEN s
    ELSE IF Len(labels[i]) > MAX_LABEL_LEN
    THEN Fail(write(s, Len(labels[i])), LabelTooLong)
    ELSE write_labels_length_first(write_bytes(write(s, Len(labels[i])), labels[i]),
                                   labels, i + 1)

\* the loop of write_qname over the labels, from label i on
RECURSIVE write_labels(_, _, _)
write_labels(s, labels, i) ==
    IF i > Len(labels) \/ s.err # Ok THEN s
    ELSE IF Len(labels[i]) > MAX_LABEL_LEN THEN Fail(s, LabelTooLong)
    ELSE write_labels(write_bytes(write(s, Len(labels[i])), labels[i]),
                      labels, i + 1)

write_qname(s, qname) == write(write_labels(s, Split(qname), 1), 0)

\* The locals of read_qname at the top of its loop; jumps counts the
\* pointers followed so far (an observation, the code keeps no such count)
QnameLocals(s) ==
    [pos |-> s.head, jumped |-> FALSE, delim |-> <<>>, qname |-> <<>>,
     status |-> IF s.err = Ok THEN "run" ELSE "err", jumps |-> 0]

\* read_qname with `self.seek(pos + 2)?` at every pointer
QnameStep_seek_always(s, l) ==
    LET len == get(s, l.pos)
        label_len == len.v
    IN
    IF len.err # Ok THEN [s |-> Fail(s, len.err), l |-> [l EXCEPT !.status = "err"]]
    ELSE IF BitAnd(label_len, 192) = 192 THEN
        LET s1 == seek(s, l.pos + 2)
            jump == get(s1, l.pos + 1)
            offset == BitOr(BitXor(label_len, 192) * 256, jump.v)
        IN  IF jump.err # Ok
            THEN [s |-> Fail(s1, jump.err), l |-> [l EXCEPT !.status = "err"]]
            ELSE [s |-> s1,
                  l |-> [l EXCEPT !.pos = offset, !.jumped = TRUE,
                                  !.jumps = l.jumps + 1]]
    ELSE IF label_len = 0 THEN
        [s |-> IF ~l.jumped THEN seek(s, l.pos + 1) ELSE s,
         l |-> [l EXCEPT !.pos = l.pos + 1, !.status = "done"]]
    ELSE
        LET str_buffer == get_range(s, l.pos + 1, label_len)
        IN  IF str_buffer.err # Ok
            THEN [s |-> Fail(s, str_buffer.err),
                  l |-> [l EXCEPT !.pos = l.pos + 1, !.qname = l.qname \o l.delim,
                                  !.status = "err"]]
            ELSE [s |-> s,
                  l |-> [l EXCEPT !.pos = l.pos + 1 + label_len,
                                  !.qname = l.qname \o l.delim \o Lower(str_buffer.v),
                                  !.delim = <<DOT>>]]

\* One iteration of the loop of read_qname, and, when the iteration breaks
\* out of the loop, the seek that follows the loop
QnameStep(s, l) ==
    LET len == get(s, l.pos)
        label_len == len.v
    IN
    IF len.err # Ok THEN [s |-> Fail(s, len.err), l |-> [l EXCEPT !.status = "err"]]
    ELSE IF BitAnd(label_len, 192) = 192 THEN
        LET s1 == IF ~l.jumped THEN seek(s, l.pos + 2) ELSE s
            jump == get(s1, l.pos + 1)
            offset == BitOr(BitXor(label_len, 192) * 256, jump.v)
        IN  IF jump.err # Ok
            THEN [s |-> Fail(s1, jump.err), l |-> [l EXCEPT !.status = "err"]]
            ELSE [s |-> s1,
                  l |-> [l EXCEPT !.pos = offset, !.jumped = TRUE,
                                  !.jumps = l.jumps + 1]]
    ELSE IF label_len = 0 THEN
        [s |-> IF ~l.jumped THEN seek(s, l.pos + 1) ELSE s,
         l |-> [l EXCEPT !.pos = l.pos + 1, !.status = "done"]]
    ELSE
        LET str_buffer == get_range(s, l.pos + 1, label_len)
        IN  IF str_buffer.err # Ok
            THEN [s |-> Fail(s, str_buffer.err),
                  l |-> [l EXCEPT !.pos = l.pos + 1, !.qname = l.qname \o l.delim,
                                  !.status = "err"]]
            ELSE [s |-> s,
                  l |-> [l EXCEPT !.pos = l.pos + 1 + label_len,
                                  !.qname = l.qname \o l.delim \o Lower(str_buffer.v),
                                  !.delim = <<DOT>>]]

\* The loop run to its end.  The buffer does not change during the loop and
\* pos alone decides what an iteration does next, so a run that comes to the
\* top of the loop at a pos where it has been before repeats from there for
\* ever: the call does not return.  seen holds the values of pos so far.
RECURSIVE QnameRun(_, _, _)
QnameLoop(n, seen) == QnameRun(n.s, n.l, seen)
QnameRun(s, l, seen) ==
    IF l.status # "run" THEN [s |-> s, l |-> l]
    ELSE IF l.pos \in seen
    THEN [s |-> Fail(s, Diverges), l |-> [l EXCEPT !.status = Diverges]]
    ELSE QnameLoop(QnameStep(s, l), seen \cup {l.pos})

\* what read_qname leaves behind: the buffer and the name in qname
QnameResult(r) == [s |-> r.s, v |-> r.l.qname]

\* read_qname(&mut qname) with qname empty: the buffer after the call and
\* the name read
read_qname(s) ==
    IF s.err # Ok THEN [s |-> s, v |-> <<>>]
    ELSE QnameResult(QnameRun(s, QnameLocals(s), {}))

----------------------------------------------------------------------------
(* ResponseCode and DnsHeader (protocol.rs)                                *)

NOERROR == "NOERROR"
FORMERR == "FORMERR"
SERVFAIL == "SERVFAIL"
NXDOMAIN == "NXDOMAIN"
NOTIMP == "NOTIMP"
REFUSED == "REFUSED"

ResponseCodes == {NOERROR, FORMERR, SERVFAIL, NXDOMAIN, NOTIMP, REFUSED}

\* from_num with SERVFAIL for the numbers that are no code
ResponseCode_from_num_servfail(num) ==
    CASE num = 0 -> NOERROR [] num = 1 -> FORMERR [] num = 2 -> SERVFAIL
      [] num = 3 -> NXDOMAIN [] num = 4 -> NOTIMP [] num = 5 -> REFUSED
      [] OTHER -> SERVFAIL

\* `rescode as u8`: the discriminant of the enum
RescodeNum(r) ==
    CASE r = NOERROR -> 0 [] r = FORMERR -> 1 [] r = SERVFAIL -> 2
      [] r = NXDOMAIN -> 3 [] r = NOTIMP -> 4 [] r = REFUSED -> 5

ResponseCode_from_num(num) ==
    CASE num = 1 -> FORMERR [] num = 2 -> SERVFAIL [] num = 3 -> NXDOMAIN
      [] num = 4 -> NOTIMP [] num = 5 -> REFUSED [] OTHER -> NOERROR

DnsHeader_new ==
    [id |-> 0,
     recursion_desired |-> FALSE, truncated_message |-> FALSE,
     authoritative_answer |-> FALSE, opcode |-> 0, response |-> FALSE,
     rescode |-> NOERROR, checking_disabled |-> FALSE, authed_data |-> FALSE,
     z |-> FALSE, recursion_available |-> FALSE,
     questions |-> 0, answers |-> 0, authoritative_entries |-> 0,
     resource_entries |-> 0]

\* DnsHeader::read: the buffer after the call and the header read
\* the fields of the header out of the six 16-bit words read: id, flags and
\* the four counts
DnsHeader_unpack(r) ==
    [s |-> r.s,
     v |-> [id |-> r.v[1],
            rescode |-> ResponseCode_from_num(r.v[2] % 16),
            checking_disabled |-> Bit(r.v[2], 4) > 0,
            authed_data |-> Bit(r.v[2], 5) > 0,
            z |-> Bit(r.v[2], 6) > 0,
            recursion_available |-> Bit(r.v[2], 7) > 0,
            recursion_desired |-> Bit(r.v[2], 8) > 0,
            truncated_message |-> Bit(r.v[2], 9) > 0,
            authoritative_answer |-> Bit(r.v[2], 10) > 0,
            opcode |-> (r.v[2] \div 2048) % 16,
            response |-> Bit(r.v[2], 15) > 0,
            questions |-> r.v[3], answers |-> r.v[4],
            authoritative_entries |-> r.v[5], resource_entries |-> r.v[6]]]

DnsHeader_read(s) == DnsHeader_unpack(read_u16s(s, 6, <<>>))

\* The first flag byte as DnsHeader::write builds it
FlagByteHigh(h) ==
    BitOr(BitOr(BitOr(BitOr(Shl8(AsU8(h.response), 7),
                            Shl8(h.opcode, 6)),
                      Shl8(AsU8(h.authoritative_answer), 2)),
                Shl8(AsU8(h.truncated_message), 1)),
          AsU8(h.recursion_desired))

\* The second flag byte as DnsHeader::write builds it
FlagByteLow(h) ==
    BitOr(BitOr(BitOr(BitOr(Shl8(AsU8(h.recursion_available), 7),
                            Shl8(AsU8(h.z), 6)),
                      Shl8(AsU8(h.authed_data), 5)),
                Shl8(AsU8(h.checking_disabled), 4)),
          RescodeNum(h.rescode))

DnsHeader_write(h, s) ==
    LET s1 == write_u16(s, h.id)
        s2 == write(s1, FlagByteHigh(h))
        s3 == write(s2, FlagByteLow(h))
        s4 == write_u16(s3, h.questions)
        s5 == write_u16(s4, h.answers)
        s6 == write_u16(s5, h.authoritative_entries)
    IN  write_u16(s6, h.resource_entries)

----------------------------------------------------------------------------
(* QueryType, DnsQuestion and DnsRecord (protocol.rs)                      *)

\* QueryType::A ... QueryType::AAAA and QueryType::UNKNOWN(n)
QT(t) == [t |-> t, n |-> 0]
QT_UNKNOWN(n) == [t |-> "UNKNOWN", n |-> n]

QueryType_to_num(q) ==
    CASE q.t = "UNKNOWN" -> q.n
      [] q.t = "A" -> 1 [] q.t = "NS" -> 2 [] q.t = "CNAME" -> 5
      [] q.t = "MX" -> 15 [] q.t = "AAAA" -> 28

QueryType_from_num(num) ==
    CASE num = 1 -> QT("A") [] num = 2 -> QT("NS") [] num = 5 -> QT("CNAME")
      [] num = 15 -> QT("MX") [] num = 28 -> QT("AAAA")
      [] OTHER -> QT_UNKNOWN(num)

DnsQuestion_new(name, qtype) == [name |-> name, qtype |-> qtype]

\* DnsQuestion::read on a question of DnsQuestion::new("", UNKNOWN(0))
DnsQuestion_fields(name, f) ==
    [s |-> f.s, v |-> DnsQuestion_new(name, QueryType_from_num(f.v[1]))]

\* the type and the class after the name
DnsQuestion_after_name(name) ==
    DnsQuestion_fields(name.v, read_u16s(name.s, 2, <<>>))

DnsQuestion_read(s) == DnsQuestion_after_name(read_qname(s))

DnsQuestion_write(q, s) ==
    write_u16(write_u16(write_qname(s, q.name), QueryType_to_num(q.qtype)), 1)

\* The variants of DnsRecord.  An Ipv4Addr is its four octets, an Ipv6Addr
\* its eight 16-bit segments.
RecA(domain, addr, ttl) == [type |-> "A", domain |-> domain, addr |-> addr, ttl |-> ttl]
RecNS(domain, host, ttl) == [type |-> "NS", domain |-> domain, host |-> host, ttl |-> ttl]
RecCNAME(domain, host, ttl) == [type |-> "CNAME", domain |-> domain, host |-> host, ttl |-> ttl]
RecMX(domain, priority, host, ttl) ==
    [type |-> "MX", domain |-> domain, priority |-> priority, host |-> host, ttl |-> ttl]
RecAAAA(domain, addr, ttl) == [type |-> "AAAA", domain |-> domain, addr |-> addr, ttl |-> ttl]
RecUNKNOWN(domain, qtype, data_len, ttl) ==
    [type |-> "UNKNOWN", domain |-> domain, qtype |-> qtype, data_len |-> data_len,
     ttl |-> ttl]

\* The arms of the match of DnsRecord::read: the buffer after the call and
\* the record, out of what the reads of the arm returned
read_A(domain, ttl, raw_addr) ==
    [s |-> raw_addr.s,
     v |-> RecA(domain,
                <<(raw_addr.v[1] \div 256) % 256, raw_addr.v[1] % 256,
                  (raw_addr.v[2] \div 256) % 256, raw_addr.v[2] % 256>>,
                ttl)]

\* the four read_u32 of the AAAA arm are eight reads of 16 bits, which are
\* the eight segments of the address
read_AAAA(domain, ttl, raw_addr) ==
    [s |-> raw_addr.s, v |-> RecAAAA(domain, raw_addr.v, ttl)]

read_NS(domain, ttl, host) == [s |-> host.s, v |-> RecNS(domain, host.v, ttl)]

read_CNAME(domain, ttl, host) == [s |-> host.s, v |-> RecCNAME(domain, host.v, ttl)]

read_MX_host(domain, ttl, priority, host) ==
    [s |-> host.s, v |-> RecMX(domain, priority, host.v, ttl)]

read_MX(domain, ttl, priority) ==
    read_MX_host(domain, ttl, priority.v, read_qname(priority.s))

read_UNKNOWN(domain, qtype, ttl, data_len, s) ==
    [s |-> step(s, data_len), v |-> RecUNKNOWN(domain, qtype, data_len, ttl)]

\* the match of DnsRecord::read on the type; s is the buffer after the
\* reads of the name, the type, the class, the ttl and the data length
read_data(domain, qtype, ttl, data_len, s) ==
    CASE QueryType_from_num(qtype).t = "A" -> read_A(domain, ttl, read_u32(s))
      [] QueryType_from_num(qtype).t = "AAAA" ->
            read_AAAA(domain, ttl, read_u16s(s, 8, <<>>))
      [] QueryType_from_num(qtype).t = "CNAME" -> read_CNAME(domain, ttl, read_qname(s))
      [] QueryType_from_num(qtype).t = "NS" -> read_NS(domain, ttl, read_qname(s))
      [] QueryType_from_num(qtype).t = "MX" -> read_MX(domain, ttl, read_u16(s))
      [] QueryType_from_num(qtype).t = "UNKNOWN" ->
            read_UNKNOWN(domain, qtype, ttl, data_len, s)

\* f holds the type, the class, the two halves of the ttl and the data
\* length, read in this order after the name
read_fields(domain, f) ==
    read_data(domain, f.v[1], U32(f.v[3], f.v[4]), f.v[5], f.s)

read_after_domain(domain) == read_fields(domain.v, read_u16s(domain.s, 5, <<>>))

\* DnsRecord::read: the buffer after the call and the record
DnsRecord_read(s) == read_after_domain(read_qname(s))

\* name, type, class 1 and ttl, which every written variant starts with
WritePreamble(s, domain, qtype, ttl) ==
    write_u32(write_u16(write_u16(write_qname(s, domain), QueryType_to_num(qtype)), 1), ttl)

\* the data length counted from the placeholder on
set_data_len_with_placeholder(s, pos) == set_u16(s, pos, s.head - pos)

\* the placeholder for the data length, the host name and the data length
\* set to the bytes written after the placeholder
set_data_len(s, pos) == set_u16(s, pos, s.head - (pos + 2))

WriteSized(s, priority, host) ==
    set_data_len(write_qname(IF priority = <<>> THEN write_u16(s, 0)
                             ELSE write_u16(write_u16(s, 0), priority[1]),
                             host),
                 s.head)

\* DnsRecord::write: the buffer after the call; the number the call returns
\* is the head after minus the head before
DnsRecord_write(r, s) ==
    CASE r.type = "A" ->
            LET s1 == write_u16(WritePreamble(s, r.domain, QT("A"), r.ttl), 4)
            IN  write(write(write(write(s1, r.addr[1]), r.addr[2]), r.addr[3]), r.addr[4])
      [] r.type = "NS" -> WriteSized(WritePreamble(s, r.domain, QT("NS"), r.ttl), <<>>, r.host)
      [] r.type = "CNAME" ->
            WriteSized(WritePreamble(s, r.domain, QT("CNAME"), r.ttl), <<>>, r.host)
      [] r.type = "MX" ->
            WriteSized(WritePreamble(s, r.domain, QT("MX"), r.ttl), <<r.priority>>, r.host)
      [] r.type = "AAAA" ->
            LET s1 == write_u16(WritePreamble(s, r.domain, QT("AAAA"), r.ttl), 16)
                s2 == write_u16(write_u16(write_u16(write_u16(s1,
                          r.addr[1]), r.addr[2]), r.addr[3]), r.addr[4])
            IN  write_u16(write_u16(write_u16(write_u16(s2,
                          r.addr[5]), r.addr[6]), r.addr[7]), r.addr[8])
      [] r.type = "UNKNOWN" -> s

----------------------------------------------------------------------------
(* DnsPacket (protocol.rs)                                                 *)

DnsPacket_new ==
    [header |-> DnsHeader_new, questions |-> <<>>, answers |-> <<>>,
     authorities |-> <<>>, resources |-> <<>>]

\* `section.push(item)` after `read(buffer)?`: r is the buffer and the item
\* the read returned; nothing is pushed when the read failed
push(acc, r) == IF r.s.err = Ok THEN Append(acc, r.v) ELSE acc

\* `for _ in 0..n { question.read(buffer)?; result.questions.push(question) }`
\* with q the outcome of the read of this iteration
RECURSIVE read_questions(_, _, _)
next_question(q, n, acc) == read_questions(q.s, n - 1, push(acc, q))
read_questions(s, n, acc) ==
    IF n = 0 \/ s.err # Ok THEN [s |-> s, v |-> acc]
    ELSE next_question(DnsQuestion_read(s), n, acc)

\* `for _ in 0..n { let rec = DnsRecord::read(buffer)?; section.push(rec) }`
\* with r the outcome of the read of this iteration
RECURSIVE read_records(_, _, _)
next_record(r, n, acc) == read_records(r.s, n - 1, push(acc, r))
read_records(s, n, acc) ==
    IF n = 0 \/ s.err # Ok THEN [s |-> s, v |-> acc]
    ELSE next_record(DnsRecord_read(s), n, acc)

\* DnsPacket::from_buffer after the header: the sections are read one after
\* the other, each as many items as the header read from the wire says
read_resources(h, qd, an, ns, ar) ==
    [err |-> ar.s.err,
     s |-> ar.s,
     v |-> [header |-> h, questions |-> qd, answers |-> an,
            authorities |-> ns, resources |-> ar.v]]

read_authorities(h, qd, an, ns) ==
    read_resources(h, qd, an, ns.v, read_records(ns.s, h.resource_entries, <<>>))

read_answers(h, qd, an) ==
    read_authorities(h, qd, an.v, read_records(an.s, h.authoritative_entries, <<>>))

read_sections(h, qd) ==
    read_answers(h, qd.v, read_records(qd.s, h.answers, <<>>))

read_body(h) == read_sections(h.v, read_questions(h.s, h.v.questions, <<>>))

\* DnsPacket::from_buffer: the error (Ok when none), the buffer after the
\* call and the packet
DnsPacket_from_buffer(s) == read_body(DnsHeader_read(s))

\* answers.iter().chain(authorities.iter()).chain(resources.iter())
Chain(p) == p.answers \o p.authorities \o p.resources

\* `for question in &self.questions { question.write(buffer)?; }`
RECURSIVE write_questions(_, _, _)
write_questions(qs, s, i) ==
    IF i > Len(qs) \/ s.err # Ok THEN s
    ELSE write_questions(qs, DnsQuestion_write(qs[i], s), i + 1)

\* The first loop of DnsPacket::write, from the i-th record of the chain on
\* (i counts from 0 as enumerate does): the header with its counts and its
\* TC bit, and record_count
RECURSIVE CountRecords(_, _, _, _)
\* the match on what rec.write(&mut temp_buf) returned, w being temp_buf
\* after that call
Counted(p, header, w, i) ==
    IF w.err = Ok
    THEN CountRecords(p,
            IF i < Len(p.answers)
            THEN [header EXCEPT !.answers = (header.answers + 1) % 65536]
            ELSE IF i < Len(p.answers) + Len(p.authorities)
            THEN [header EXCEPT !.authoritative_entries =
                                    (header.authoritative_entries + 1) % 65536]
            ELSE [header EXCEPT !.resource_entries =
                                    (header.resource_entries + 1) % 65536],
            w, i + 1)
    ELSE [header |-> [header EXCEPT !.truncated_message = TRUE], record_count |-> i]

CountRecords(p, header, temp_buf, i) ==
    IF i >= Len(Chain(p)) THEN [header |-> header, record_count |-> Len(Chain(p))]
    ELSE Counted(p, header, DnsRecord_write(Chain(p)[i + 1], temp_buf), i)

\* `for rec in chain.take(record_count) { rec.write(buffer)?; }`
RECURSIVE write_records(_, _, _, _)
write_records(recs, record_count, s, i) ==
    IF i > record_count \/ i > Len(recs) \/ s.err # Ok THEN s
    ELSE write_records(recs, record_count, DnsRecord_write(recs[i], s), i + 1)

\* DnsPacket::write(&mut self, buffer) returns the error (Ok when none), the
\* packet after the call, the buffer after the call and record_count

\* the end of the call, out being the buffer after the second loop
WriteResult(p, header, record_count, out) ==
    [err |-> out.err, pkt |-> [p EXCEPT !.header = header], buf |-> out,
     record_count |-> record_count]

\* "do it for real": the header, the questions and the first record_count
\* records go to the buffer of the caller
WriteForReal(p, header, record_count, buffer) ==
    WriteResult(p, header, record_count,
        write_records(Chain(p), record_count,
            write_questions(p.questions, DnsHeader_write(header, buffer), 1), 1))

\* after the first loop: self.header.questions = self.questions.len() as u16
AfterCount(p, counted, buffer) ==
    WriteForReal(p, [counted.header EXCEPT !.questions = Len(p.questions) % 65536],
                 counted.record_count, buffer)

\* after the header and the questions went to temp_buf
AfterQuestions(p, temp_buf, buffer) ==
    IF temp_buf.err # Ok
    THEN [err |-> temp_buf.err, pkt |-> p, buf |-> buffer, record_count |-> 0]
    ELSE AfterCount(p, CountRecords(p, p.header, temp_buf, 0), buffer)

DnsPacket_write(p, buffer) ==
    AfterQuestions(p, write_questions(p.questions, DnsHeader_write(p.header, NewBuffer), 1),
                   buffer)

----------------------------------------------------------------------------
(* Header codec: a header value is written to a fresh buffer and read back *)

HeaderIds == {4660, 65535}
HeaderCounts == {<<0, 0, 0, 0>>, <<1, 2, 3, 258>>}
\* (recursion_available, z, authed_data, checking_disabled) patterns
HeaderLowFlags == {<<FALSE, FALSE, FALSE, FALSE>>, <<TRUE, FALSE, FALSE, FALSE>>,
                   <<FALSE, TRUE, FALSE, TRUE>>, <<TRUE, TRUE, TRUE, TRUE>>}

HeaderInputs ==
    { [id |-> i,
       recursion_desired |-> rd, truncated_message |-> tc,
       authoritative_answer |-> aa, opcode |-> op, response |-> qr,
       rescode |-> rc, checking_disabled |-> lo[4], authed_data |-> lo[3],
       z |-> lo[2], recursion_available |-> lo[1],
       questions |-> c[1], answers |-> c[2], authoritative_entries |-> c[3],
       resource_entries |-> c[4]] :
      i \in HeaderIds, rd \in BOOLEAN, tc \in BOOLEAN, aa \in BOOLEAN,
      qr \in BOOLEAN, op \in 0..15, rc \in ResponseCodes,
      lo \in HeaderLowFlags, c \in HeaderCounts }

HeaderInit ==
    /\ hdr \in HeaderInputs
    /\ hwire = NewBuffer
    /\ hback = DnsHeader_new
    /\ hphase = "new"

HeaderIdle == hdr = Idle /\ hwire = Idle /\ hback = Idle /\ hphase = Idle

HeaderWrite ==
    /\ hphase = "new"
    /\ hwire' = DnsHeader_write(hdr, NewBuffer)
    /\ hphase' = "written"
    /\ UNCHANGED <<hdr, hback, notHeader>>

\* the receiver reads the 12 bytes from the start of the buffer
HeaderRead ==
    /\ hphase = "written"
    /\ hwire.err = Ok
    /\ LET r == DnsHeader_read(seek(hwire, 0))
       IN  /\ hback' = r.v
           /\ hphase' = IF r.s.err = Ok THEN "read" ELSE "failed"
    /\ UNCHANGED <<hdr, hwire, notHeader>>

HeaderNext == HeaderWrite \/ HeaderRead

----------------------------------------------------------------------------
(* Name codec: a name is written at an offset of a fresh buffer and read   *)
(* back from that offset, or a received buffer is read from an offset; the *)
(* read goes one iteration of the loop of read_qname at a time             *)

MaxJumpsSeen == 257

Rep(b, n) == [i \in 1..n |-> b]

\* "", "a", "A", "a.b", "Ab.cD", "a.", ".a", "a..b", a label of 63 bytes,
\* a label of 64 bytes, "w." followed by a label of 63 bytes
NameInputs ==
    { <<>>, <<97>>, <<65>>, <<97, DOT, 98>>, <<65, 98, DOT, 99, 68>>,
      <<97, DOT>>, <<DOT, 97>>, <<97, DOT, DOT, 98>>,
      Rep(120, 63), Rep(120, 64), <<119, DOT>> \o Rep(121, 63) }

\* the offsets a name is written at: the start of the buffer, the end of
\* the header, and the offsets that leave Len(n) + 2 bytes, one byte more
\* and one byte less before the end of the buffer
StartOffsets(n) ==
    {0, 12} \cup {MAX_SIZE - (Len(n) + 2) + d : d \in {-1, 0, 1}}

\* received buffers and the offset the name is read at: a pointer to
\* itself at offset 12; "example" at 12 and a pointer to it at 28 (which is
\* where the name of a record after a question of "example" starts); two
\* pointers pointing at each other; a pointer into a name that ends in a
\* pointer; a label that runs to the last byte of the buffer; a pointer in
\* the last byte of the buffer
ExampleLabel == <<7, 101, 120, 97, 109, 112, 108, 101>>
RawInputs ==
    { [buf |-> Zeros(12) \o <<192, 12>>, at |-> 12],
      [buf |-> Zeros(12) \o ExampleLabel \o <<0>> \o Zeros(7) \o <<192, 12>>, at |-> 28],
      [buf |-> Zeros(12) \o <<192, 14, 192, 12>>, at |-> 12],
      [buf |-> Zeros(12) \o <<1, 97, 0, 1, 66, 192, 12, 1, 99, 192, 15>>, at |-> 19],
      [buf |-> Zeros(MAX_SIZE - 4) \o <<3, 97, 98, 99>>, at |-> MAX_SIZE - 4],
      [buf |-> Zeros(MAX_SIZE - 1) \o <<192>>, at |-> MAX_SIZE - 1] }

NoName == <<0>>

QnameInit ==
    \/ /\ qn \in NameInputs
       /\ \E at \in StartOffsets(qn) : qb = seek(NewBuffer, at)
       /\ ql = QnameLocals(qb)
       /\ qphase = "new"
    \/ /\ qn = NoName
       /\ \E r \in RawInputs : qb = [buf |-> r.buf, head |-> r.at, err |-> Ok]
       /\ ql = QnameLocals(qb)
       /\ qphase = "reading"

QnameIdle == qn = Idle /\ qb = Idle /\ ql = Idle /\ qphase = Idle

\* write_qname(lower(n)) at the cursor; the reader then starts at the
\* offset the name was written at
QnameWrite ==
    /\ qphase = "new"
    /\ LET w == write_qname(qb, Lower(qn))
       IN  IF w.err = Ok
           THEN /\ qb' = seek(w, qb.head)
                /\ ql' = QnameLocals(qb)
                /\ qphase' = "reading"
           ELSE /\ qb' = w
                /\ ql' = ql
                /\ qphase' = "unwritten"
    /\ UNCHANGED <<qn, notQname>>

QnameReadStep ==
    /\ qphase = "reading"
    /\ ql.status = "run"
    /\ ql.jumps < MaxJumpsSeen
    /\ LET n == QnameStep(qb, ql)
       IN  /\ qb' = n.s
           /\ ql' = n.l
    /\ UNCHANGED <<qn, qphase, notQname>>

QnameReturn ==
    /\ qphase = "reading"
    /\ ql.status # "run"
    /\ qphase' = "read"
    /\ UNCHANGED <<qn, qb, ql, notQname>>

QnameNext == QnameWrite \/ QnameReadStep \/ QnameReturn

----------------------------------------------------------------------------
(* Packet codec: a packet is written to a fresh 512-byte buffer with       *)
(* DnsPacket::write and the bytes are parsed with DnsPacket::from_buffer   *)

MaxAnswers == 2

SeqsUpTo(S, n) == UNION {[1..k -> S] : k \in 0..n}

\* "a.b", "a.test", "mail.a.test", "c", and names of three, of eight and of
\* one label of 63 bytes
Name_ab == <<97, DOT, 98>>
Name_atest == <<97, DOT, 116, 101, 115, 116>>
Name_mail == <<109, 97, 105, 108, DOT>> \o Name_atest
Name_c == <<99>>
Name_root == <<>>
Name_big == Rep(120, 63) \o <<DOT>> \o Rep(121, 63) \o <<DOT>> \o Rep(122, 63)
Name_huge == Name_big \o <<DOT>> \o Name_big \o <<DOT>> \o Rep(119, 63)
                \o <<DOT>> \o Rep(118, 63)

Addr4 == <<203, 0, 113, 7>>
Addr6 == <<8193, 3512, 0, 0, 0, 0, 0, 1>>

\* the records answers are drawn from: A, CNAME, MX, a TXT record (which the
\* reader keeps as UNKNOWN) and an A record of 207 bytes
AnswerPool ==
    { RecA(Name_atest, Addr4, U32(0, 300)), RecCNAME(Name_ab, Name_c, U32(0, 60)),
      RecMX(Name_atest, 10, Name_mail, U32(0, 3600)),
      RecUNKNOWN(Name_ab, 16, 9, U32(0, 300)), RecA(Name_big, Addr4, U32(1, 4464)) }

\* the authority sections: none, an NS record, an SOA record (which the
\* reader keeps as UNKNOWN), and NS records whose host is one label of 60
\* and of 61 bytes: with the question of "a.b" and two answers of 207 bytes
\* the packet then is 512 and 513 bytes long
AuthorityLists ==
    { <<>>, <<RecNS(Name_ab, Name_c, U32(2, 41728))>>,
      <<RecUNKNOWN(Name_ab, 6, 30, U32(0, 900))>> }
    \cup { <<RecNS(Name_ab, Rep(104, n), U32(0, 300))>> : n \in {60, 61} }

ResourceLists ==
    { <<>>, <<RecA(Name_c, Addr4, U32(0, 300))>>,
      <<RecAAAA(Name_c, Addr6, U32(0, 300)), RecA(Name_big, Addr4, U32(0, 300))>> }

\* no question, a question of "a.b", the question of the root ("", as
\* read_qname returns the name of a query for the root) and a question whose
\* name does not fit in 512 bytes
QuestionLists ==
    { <<>>, <<DnsQuestion_new(Name_ab, QT("A"))>>,
      <<DnsQuestion_new(Name_root, QT("NS"))>>,
      <<DnsQuestion_new(Name_huge, QT("A"))>> }

\* the header of a response as execute_query starts it, with the record
\* counts at zero or already at the lengths of the sections
HeaderOf(an, ns, ar, counted) ==
    [DnsHeader_new EXCEPT !.id = 4660, !.response = TRUE, !.recursion_desired = TRUE,
                          !.recursion_available = TRUE,
                          !.answers = IF counted THEN Len(an) ELSE 0,
                          !.authoritative_entries = IF counted THEN Len(ns) ELSE 0,
                          !.resource_entries = IF counted THEN Len(ar) ELSE 0]

PacketOf(qd, an, ns, ar, counted) ==
    [header |-> HeaderOf(an, ns, ar, counted), questions |-> qd, answers |-> an,
     authorities |-> ns, resources |-> ar]

\* packets as execute_query builds them (counts at zero), and packets of
\* answers alone whose counts are set already, as from_buffer leaves them
PacketInputs ==
    { PacketOf(qd, an, ns, ar, FALSE) :
        qd \in QuestionLists, an \in SeqsUpTo(AnswerPool, MaxAnswers),
        ns \in AuthorityLists, ar \in ResourceLists }
    \cup
    { PacketOf(<<>>, an, <<>>, <<>>, TRUE) : an \in SeqsUpTo(AnswerPool, MaxAnswers) }

CodecInit ==
    /\ pkt \in PacketInputs
    /\ wres = Idle
    /\ rres = Idle
    /\ cphase = "new"

CodecIdle == pkt = Idle /\ wres = Idle /\ rres = Idle /\ cphase = Idle

\* packet.write(&mut buffer) with buffer = BytePacketBuffer::new()
CodecWrite ==
    /\ cphase = "new"
    /\ wres' = DnsPacket_write(pkt, NewBuffer)
    /\ cphase' = "written"
    /\ UNCHANGED <<pkt, rres, notCodec>>

\* what is kept of a parse: the error (Ok when none), the packet and where
\* the cursor of the buffer stands
ParseResult(r) == [err |-> r.err, v |-> r.v, head |-> r.s.head]

\* the receiver parses the bytes from the start of its buffer
CodecParse ==
    /\ cphase = "written"
    /\ wres.err = Ok
    /\ rres' = ParseResult(DnsPacket_from_buffer(seek(wres.buf, 0)))
    /\ cphase' = "parsed"
    /\ UNCHANGED <<pkt, wres, notCodec>>

CodecNext == CodecWrite \/ CodecParse

----------------------------------------------------------------------------
(* Transport client (network.rs).  The tasks of the worker pools call      *)
(* send_query on the one NetworkClient of the ServerContext: they share    *)
(* its UDP socket and its id counter.  A call is two steps, one up to the  *)
(* return of send_to and one from the return of recv_from on, because      *)
(* recv_from blocks until a datagram is at the socket; the socket has no   *)
(* read timeout (none is set in NetworkClient::new).  The upstream server  *)
(* answers a query it holds or never answers it.  A datagram is kept as    *)
(* the packet it carries.  queries counts the queries the client has built *)
(* since NetworkClient::new, and a caller keeps in nth which of them its   *)
(* query is.                                                               *)

NumCallers == 2
MaxJobs == 3

Callers == 1..NumCallers

\* Option: None and Some(x)
None == <<>>
Some(x) == <<x>>

\* io::Result<DnsPacket>: Ok(packet) and Err(e)
OkOf(v) == [ok |-> TRUE, v |-> v]
ErrOf == [ok |-> FALSE]

\* the names the clients of the server ask for
JobNames == {Name_ab, Name_c}

\* the packet send_udp_query and send_tcp_query build
QueryPacket(id, qname, qtype, recursive) ==
    [DnsPacket_new EXCEPT !.header.id = id, !.header.questions = 1,
                          !.header.recursion_desired = recursive,
                          !.questions = <<DnsQuestion_new(qname, qtype)>>]

\* what the upstream server answers to a query: the id and the question of
\* the query, and an answer unless the reply is truncated
ReplyTo(q, tc) ==
    [q EXCEPT !.header.response = TRUE, !.header.truncated_message = tc,
              !.header.answers = IF tc THEN 0 ELSE 1,
              !.answers = IF tc THEN <<>>
                          ELSE <<RecA(q.questions[1].name, Addr4, U32(0, 300))>>]

\* a worker that runs no query
CallerIdle == [pc |-> "idle", qname |-> <<>>, id |-> 0, nth |-> 0, result |-> None]

\* how many queries the client has built when the workers start: none (the
\* client of NetworkClient::new) or 65534 (one that ran that long)
QueriesBefore == {0, 65534}

ClientInit ==
    /\ queries \in QueriesBefore
    /\ pid_seq = queries % 65536
    /\ socket = <<>>
    /\ upstream = {}
    /\ jobs \in [1..MaxJobs -> JobNames]
    /\ callers = [w \in Callers |-> CallerIdle]

ClientIdle ==
    /\ pid_seq = Idle
    /\ queries = Idle
    /\ socket = Idle
    /\ upstream = Idle
    /\ jobs = Idle
    /\ callers = Idle

\* send_udp_query with pid_seq.load in the place of pid_seq.fetch_add
send_to_load(w, sent) ==
    /\ callers[w].pc = "idle"
    /\ jobs # <<>>
    /\ pid_seq' = pid_seq
    /\ queries' = queries + 1
    /\ jobs' = Tail(jobs)
    /\ upstream' = IF sent
                   THEN upstream \cup {QueryPacket(pid_seq, Head(jobs), QT("A"), TRUE)}
                   ELSE upstream
    /\ callers' = [callers EXCEPT ![w] =
                      [pc |-> IF sent THEN "recv_from" ELSE "returned",
                       qname |-> Head(jobs), id |-> pid_seq, nth |-> queries,
                       result |-> IF sent THEN None ELSE Some(ErrOf)]]
    /\ UNCHANGED <<socket, notClient>>

\* send_udp_query up to send_to: the id is drawn from pid_seq, the query is
\* handed to the network, or send_to fails and the ? returns its error
send_to(w, sent) ==
    /\ callers[w].pc = "idle"
    /\ jobs # <<>>
    /\ pid_seq' = (pid_seq + 1) % 65536
    /\ queries' = queries + 1
    /\ jobs' = Tail(jobs)
    /\ upstream' = IF sent
                   THEN upstream \cup {QueryPacket(pid_seq, Head(jobs), QT("A"), TRUE)}
                   ELSE upstream
    /\ callers' = [callers EXCEPT ![w] =
                      [pc |-> IF sent THEN "recv_from" ELSE "returned",
                       qname |-> Head(jobs), id |-> pid_seq, nth |-> queries,
                       result |-> IF sent THEN None ELSE Some(ErrOf)]]
    /\ UNCHANGED <<socket, notClient>>

UdpSendTo == \E w \in Callers, sent \in BOOLEAN : send_to(w, sent)

\* the upstream server answers a query; the reply arrives at the socket
UpstreamReplies ==
    \E q \in upstream, tc \in BOOLEAN :
        /\ upstream' = upstream \ {q}
        /\ socket' = Append(socket, ReplyTo(q, tc))
        /\ UNCHANGED <<pid_seq, queries, jobs, callers, notClient>>

\* the query or its reply is lost, or the upstream server is down
UpstreamSilent ==
    \E q \in upstream :
        /\ upstream' = upstream \ {q}
        /\ UNCHANGED <<pid_seq, queries, socket, jobs, callers, notClient>>

\* send_query that goes on to send_tcp_query whatever the datagram holds
recv_from_tcp(w) ==
    /\ callers[w].pc = "recv_from"
    /\ socket # <<>>
    /\ socket' = Tail(socket)
    /\ callers' = [callers EXCEPT ![w] = [@ EXCEPT !.pc = "tcp"]]
    /\ UNCHANGED <<pid_seq, queries, upstream, jobs, notClient>>

\* send_udp_query from recv_from on and the test of send_query: the oldest
\* datagram at the socket is taken and parsed; it is returned unless it is
\* truncated
recv_from(w) ==
    /\ callers[w].pc = "recv_from"
    /\ socket # <<>>
    /\ socket' = Tail(socket)
    /\ callers' = [callers EXCEPT ![w] =
                      IF Head(socket).header.truncated_message
                      THEN [@ EXCEPT !.pc = "tcp"]
                      ELSE [@ EXCEPT !.pc = "returned",
                                     !.result = Some(OkOf(Head(socket)))]]
    /\ UNCHANGED <<pid_seq, queries, upstream, jobs, notClient>>

UdpRecvFrom == \E w \in Callers : recv_from(w)

\* send_tcp_query: a connection of its own; when connect fails its error is
\* returned before a packet is built; else the packet takes a new id, and
\* the reply is read from the connection, or a write or a read fails
TcpOutcomes == {"connect_fails", "io_fails", "reply"}

send_tcp_query(w, tcp) ==
    /\ callers[w].pc = "tcp"
    /\ pid_seq' = IF tcp = "connect_fails" THEN pid_seq ELSE (pid_seq + 1) % 65536
    /\ queries' = IF tcp = "connect_fails" THEN queries ELSE queries + 1
    /\ callers' = [callers EXCEPT ![w] =
                      IF tcp = "connect_fails"
                      THEN [@ EXCEPT !.pc = "returned", !.result = Some(ErrOf)]
                      ELSE [@ EXCEPT !.pc = "returned", !.id = pid_seq, !.nth = queries,
                                     !.result =
                                         IF tcp = "reply"
                                         THEN Some(OkOf(ReplyTo(QueryPacket(pid_seq,
                                                  callers[w].qname, QT("A"), TRUE), FALSE)))
                                         ELSE Some(ErrOf)]]
    /\ UNCHANGED <<socket, upstream, jobs, notClient>>

TcpQuery == \E w \in Callers, tcp \in TcpOutcomes : send_tcp_query(w, tcp)

\* the task answers its client with the result and ends; the worker takes
\* the next task
task_done(w) ==
    /\ callers[w].pc = "returned"
    /\ callers' = [callers EXCEPT ![w] = CallerIdle]
    /\ UNCHANGED <<pid_seq, queries, socket, upstream, jobs, notClient>>

TaskDone == \E w \in Callers : task_done(w)

ClientNext == UdpSendTo \/ UpstreamReplies \/ UpstreamSilent \/ UdpRecvFrom \/ TcpQuery
                  \/ TaskDone

\* the threads of the workers are scheduled: a worker that can take a step
\* takes one; nothing makes the upstream server answer
caller_step(w) ==
    (\E sent \in BOOLEAN : send_to(w, sent)) \/ recv_from(w)
        \/ (\E tcp \in TcpOutcomes : send_tcp_query(w, tcp)) \/ task_done(w)

ClientFairness == \A w \in Callers : WF_vars(caller_step(w))

----------------------------------------------------------------------------
(* Recursive resolver (resolver.rs).  DnsResolver::resolve is called with  *)
(* a query; RecursiveResolver::execute asks name servers, starting at the  *)
(* root server, and calls resolve again for the host of a CNAME record and *)
(* for the name of a name server it has no address of.  The calls in       *)
(* progress are the frames, the innermost last.  What the name servers     *)
(* answer is the zone: for each server and each name, one kind of answer.  *)

MaxReferrals == 17
MaxDepth == 9

\* "198.41.0.4", where execute starts, and a second name server
RootServer == <<198, 41, 0, 4>>
OtherServer == <<192, 0, 2, 1>>
Servers == {RootServer, OtherServer}

ZoneNames == {Name_ab, Name_c}

\* ResolverMode; the server of Forwarding is OtherServer
ResolverMode == {"Forwarding", "Recursive"}

\* the answers of a name server: an address, a CNAME record to the name
\* itself or to "c", no such name, a referral to a server with its address,
\* a referral to the name server "c" without its address, a referral for
\* another domain, a failure of the server, and none (send_query fails);
\* "cname_two" is two CNAME records, to "mail.a.test" and to "c"
Answers ==
    {"address", "cname_self", "cname_c", "cname_two", "nxdomain", "refer_root",
     "refer_other", "refer_name", "refer_elsewhere", "servfail", "error"}

Zones == [Servers \X ZoneNames -> Answers]

\* what a server answers for a name: no server knows a name that is not
\* in the zone
AnswerOf(z, server, qname) ==
    IF qname \in ZoneNames THEN z[<<server, qname>>] ELSE "nxdomain"

Reply(rescode, an, ns, ar) ==
    [DnsPacket_new EXCEPT !.header.response = TRUE, !.header.rescode = rescode,
                          !.header.answers = Len(an),
                          !.header.authoritative_entries = Len(ns),
                          !.header.resource_entries = Len(ar),
                          !.answers = an, !.authorities = ns, !.resources = ar]

\* answers of a name server given by the bytes of the reply: the RCODE in
\* the header and what the answer section holds: an address of the name, a
\* CNAME record to "c", or nothing
WireReplies ==
    [rcode0 |-> <<0, "address">>, rcode1 |-> <<1, "address">>,
     rcode2 |-> <<2, "address">>, rcode3 |-> <<3, "address">>,
     rcode4 |-> <<4, "address">>, rcode5 |-> <<5, "address">>,
     rcode6 |-> <<6, "address">>, rcode7 |-> <<7, "address">>,
     rcode8 |-> <<8, "address">>, rcode9 |-> <<9, "address">>,
     rcode10 |-> <<10, "address">>, rcode11 |-> <<11, "address">>,
     rcode12 |-> <<12, "address">>, rcode13 |-> <<13, "address">>,
     rcode14 |-> <<14, "address">>, rcode15 |-> <<15, "address">>,
     cname6 |-> <<6, "cname">>, cname15 |-> <<15, "cname">>,
     none6 |-> <<6, "none">>, none15 |-> <<15, "none">>]

WireAnswers(kind, qname) ==
    CASE kind = "address" -> <<RecA(qname, OtherServer, U32(0, 300))>>
      [] kind = "cname" -> <<RecCNAME(qname, Name_c, U32(0, 300))>>
      [] kind = "none" -> <<>>

\* the bytes of a reply with these answers and this RCODE in the low four
\* bits of the second byte of the flags
ReplyBytes(rcode, an) ==
    [DnsPacket_write([DnsPacket_new EXCEPT !.header.response = TRUE, !.answers = an],
                     NewBuffer).buf.buf
        EXCEPT ![4] = (@ \div 16) * 16 + rcode]

\* `DnsPacket::from_buffer(&mut res_buffer)` at the end of send_query
received_packet(r) == IF r.err = Ok THEN OkOf(r.v) ELSE ErrOf

receive_reply(bytes) ==
    received_packet(DnsPacket_from_buffer([buf |-> bytes, head |-> 0, err |-> Ok]))

\* context.client.send_query(qname, qtype, (ns, 53), true)
send_query(answer, qname) ==
    CASE answer = "address" ->
             OkOf(Reply(NOERROR, <<RecA(qname, OtherServer, U32(0, 300))>>, <<>>, <<>>))
      [] answer = "cname_self" ->
             OkOf(Reply(NOERROR, <<RecCNAME(qname, qname, U32(0, 300))>>, <<>>, <<>>))
      [] answer = "cname_c" ->
             OkOf(Reply(NOERROR, <<RecCNAME(qname, Name_c, U32(0, 300))>>, <<>>, <<>>))
      [] answer = "cname_two" ->
             OkOf(Reply(NOERROR, <<RecCNAME(qname, Name_mail, U32(0, 300)),
                                   RecCNAME(qname, Name_c, U32(0, 300))>>, <<>>, <<>>))
      [] answer = "nxdomain" -> OkOf(Reply(NXDOMAIN, <<>>, <<>>, <<>>))
      [] answer = "refer_root" ->
             OkOf(Reply(NOERROR, <<>>, <<RecNS(qname, Name_c, U32(0, 300))>>,
                        <<RecA(Name_c, RootServer, U32(0, 300))>>))
      [] answer = "refer_other" ->
             OkOf(Reply(NOERROR, <<>>, <<RecNS(qname, Name_c, U32(0, 300))>>,
                        <<RecA(Name_c, OtherServer, U32(0, 300))>>))
      [] answer = "refer_name" ->
             OkOf(Reply(NOERROR, <<>>, <<RecNS(qname, Name_c, U32(0, 300))>>, <<>>))
      [] answer = "refer_elsewhere" ->
             OkOf(Reply(NOERROR, <<>>, <<RecNS(Name_atest, Name_c, U32(0, 300))>>, <<>>))
      [] answer = "servfail" -> OkOf(Reply(SERVFAIL, <<>>, <<>>, <<>>))
      [] answer = "error" -> ErrOf
      [] answer \in DOMAIN WireReplies ->
             receive_reply(ReplyBytes(WireReplies[answer][1],
                                      WireAnswers(WireReplies[answer][2], qname)))

\* str::ends_with
ends_with(s, suffix) ==
    /\ Len(suffix) <= Len(s)
    /\ SubSeq(s, Len(s) - Len(suffix) + 1, Len(s)) = suffix

\* the places <<i, j>> of an NS record of the authorities whose domain the
\* name ends with and of an A record of the resources for its host
Glue(p, qname) ==
    {x \in (1..Len(p.authorities)) \X (1..Len(p.resources)) :
        /\ p.authorities[x[1]].type = "NS"
        /\ ends_with(qname, p.authorities[x[1]].domain)
        /\ p.resources[x[2]].type = "A"
        /\ p.resources[x[2]].domain = p.authorities[x[1]].host}

\* the first place of a set of places, in the order of the two loops
FirstPlace(places) ==
    CHOOSE x \in places :
        \A y \in places : x[1] < y[1] \/ (x[1] = y[1] /\ x[2] <= y[2])

\* the inner loop of get_resolved_ns from the j-th resource on: an A record
\* of the host for every A record of the resources whose domain is the host
RECURSIVE glue_records(_, _, _)
glue_records(resources, host, j) ==
    IF j > Len(resources) THEN <<>>
    ELSE (IF resources[j].type = "A" /\ resources[j].domain = host
          THEN <<RecA(host, resources[j].addr, resources[j].ttl)>>
          ELSE <<>>) \o glue_records(resources, host, j + 1)

\* the outer loop of get_resolved_ns from the i-th authority on: what is
\* pushed to new_authorities
RECURSIVE resolved_authorities(_, _, _)
resolved_authorities(p, qname, i) ==
    IF i > Len(p.authorities) THEN <<>>
    ELSE (IF p.authorities[i].type = "NS" /\ ends_with(qname, p.authorities[i].domain)
          THEN glue_records(p.resources, p.authorities[i].host, 1)
          ELSE <<>>) \o resolved_authorities(p, qname, i + 1)

\* "choose the first authority if we have any"
first_addr(new_authorities) ==
    IF new_authorities = <<>> THEN None ELSE Some(new_authorities[1].addr)

\* get_resolved_ns that chooses the last authority
get_resolved_ns_last(p, qname) ==
    IF resolved_authorities(p, qname, 1) = <<>> THEN None
    ELSE Some(resolved_authorities(p, qname, 1)[Len(resolved_authorities(p, qname, 1))].addr)

\* DnsPacket::get_resolved_ns
get_resolved_ns(p, qname) == first_addr(resolved_authorities(p, qname, 1))

\* the loop of get_unresolved_ns from the i-th authority on: the hosts
\* pushed to new_authorities
RECURSIVE unresolved_authorities(_, _, _)
unresolved_authorities(authorities, qname, i) ==
    IF i > Len(authorities) THEN <<>>
    ELSE (IF authorities[i].type = "NS" /\ ends_with(qname, authorities[i].domain)
          THEN <<authorities[i].host>>
          ELSE <<>>) \o unresolved_authorities(authorities, qname, i + 1)

\* the hosts of all the NS records, whatever their domain
RECURSIVE ns_hosts(_, _)
ns_hosts(authorities, i) ==
    IF i > Len(authorities) THEN <<>>
    ELSE (IF authorities[i].type = "NS" THEN <<authorities[i].host>> ELSE <<>>)
             \o ns_hosts(authorities, i + 1)

\* new_authorities[random::<usize>() % new_authorities.len()]: the elements
\* the index can select, none for an empty list
random_element(new_authorities) ==
    {new_authorities[i] : i \in 1..Len(new_authorities)}

\* get_unresolved_ns without the test of the domain
get_unresolved_ns_any(p, qname) == random_element(ns_hosts(p.authorities, 1))

\* DnsPacket::get_unresolved_ns: the hosts the call can return
get_unresolved_ns(p, qname) ==
    random_element(unresolved_authorities(p.authorities, qname, 1))

\* DnsPacket::get_random_a: what the random index can give
get_random_a(p) ==
    IF p.answers = <<>> THEN {None}
    ELSE {IF p.answers[i].type = "A" THEN Some(p.answers[i].addr) ELSE None :
             i \in 1..Len(p.answers)}

\* a call of execute at its first statement.  received and chased are
\* observations the code does not keep: the response as the last send_query
\* returned it, and the calls of resolve made for CNAME records with what
\* they returned
Frame(qname, qtype) ==
    [qname |-> qname, qtype |-> qtype, ns |-> RootServer, referrals |-> 0,
     pc |-> "send_query", response |-> DnsPacket_new, next |-> 1,
     cname_responses |-> <<>>, received |-> DnsPacket_new, chased |-> <<>>]

Top == frames[Len(frames)]

\* the frames with the innermost replaced
WithTop(f) == [frames EXCEPT ![Len(frames)] = f]

\* the first if of the loop without its second alternative
Answered_noerror(res) == res.answers # <<>> /\ res.header.rescode = NOERROR

\* the condition of the first if of the loop
Answered(res) ==
    \/ res.answers # <<>> /\ res.header.rescode = NOERROR
    \/ res.header.rescode = NXDOMAIN

\* the arguments of a call of send_query: the server (its port is 53 for
\* the recursive resolver, the configured one for the forwarding resolver),
\* the name, the type and the flag of recursion, which both resolvers set
Sent(server, qname, qtype) ==
    [server |-> server, qname |-> qname, qtype |-> qtype, recursive |-> TRUE]

ResolverInit ==
    /\ zone \in Zones
    /\ query \in {DnsQuestion_new(Name_ab, QT("A")), DnsQuestion_new(Name_ab, QT("NS")),
                  DnsQuestion_new(Name_ab, QT_UNKNOWN(16))}
    /\ mode \in ResolverMode
    /\ frames = <<>>
    /\ outcome = None
    /\ outbound = <<>>

ResolverIdle ==
    /\ zone = Idle /\ query = Idle /\ mode = Idle
    /\ frames = Idle /\ outcome = Idle /\ outbound = Idle

\* a forwarding resolver that does what the recursive resolver does
execute_resolver_recursive ==
    /\ outcome' = outcome
    /\ outbound' = outbound
    /\ frames' = <<Frame(query.name, query.qtype)>>

\* self.execute(qname, qtype): ForwardResolver::execute is one send_query to
\* the server of the mode, RecursiveResolver::execute starts its loop
execute_resolver ==
    IF mode = "Forwarding"
    THEN /\ outcome' = Some(send_query(zone[<<OtherServer, query.name>>], query.name))
         /\ outbound' = Append(outbound, Sent(OtherServer, query.name, query.qtype))
         /\ frames' = frames
    ELSE /\ outcome' = outcome
         /\ outbound' = outbound
         /\ frames' = <<Frame(query.name, query.qtype)>>

\* resolve without the test of the query type
resolve_execute ==
    /\ frames = <<>>
    /\ outcome = None
    /\ execute_resolver
    /\ UNCHANGED <<zone, query, mode, notResolver>>

\* DnsResolver::resolve as execute_query calls it
Resolve ==
    /\ frames = <<>>
    /\ outcome = None
    /\ IF query.qtype.t = "UNKNOWN"
       THEN /\ outcome' = Some(OkOf([DnsPacket_new EXCEPT !.header.rescode = NOTIMP]))
            /\ frames' = frames
            /\ outbound' = outbound
       ELSE execute_resolver
    /\ UNCHANGED <<zone, query, mode, notResolver>>

\* the send_query of the loop; its error is the error of every call in
\* progress (the ? of lines 89, 100 and 132)
AfterSend(r) ==
    IF r.ok
    THEN /\ frames' = WithTop([Top EXCEPT !.pc = "received", !.response = r.v,
                                         !.received = r.v])
         /\ outcome' = outcome
    ELSE /\ frames' = <<>>
         /\ outcome' = Some(ErrOf)

SendQuery ==
    /\ frames # <<>>
    /\ Top.pc = "send_query"
    /\ Top.referrals < MaxReferrals
    /\ AfterSend(send_query(AnswerOf(zone, Top.ns, Top.qname), Top.qname))
    /\ outbound' = Append(outbound, Sent(Top.ns, Top.qname, Top.qtype))
    /\ UNCHANGED <<zone, query, mode, notResolver>>

\* the response answers the query: the CNAME records are followed when the
\* query is for an address, the response is returned when it is not
Done ==
    /\ frames # <<>>
    /\ Top.pc = "received"
    /\ Answered(Top.response)
    /\ frames' = WithTop([Top EXCEPT !.pc = IF Top.qtype.t = "A" THEN "cname" ELSE "return"])
    /\ UNCHANGED <<zone, query, mode, outcome, outbound, notResolver>>

\* the loop over response.answers: resolve is called for the host of the
\* next CNAME record; after the last record the answers found are appended
\* and the response is returned
NextCname ==
    /\ frames # <<>>
    /\ Top.pc = "cname"
    /\ IF Top.next > Len(Top.response.answers)
       THEN frames' = WithTop([Top EXCEPT !.pc = "return",
                                    !.response.answers = @ \o Top.cname_responses])
       ELSE IF Top.response.answers[Top.next].type = "CNAME"
            THEN /\ Len(frames) <= MaxDepth
                 /\ frames' = Append(WithTop([Top EXCEPT !.pc = "cname_resp"]),
                                     Frame(Top.response.answers[Top.next].host, QT("A")))
            ELSE frames' = WithTop([Top EXCEPT !.next = @ + 1])
    /\ UNCHANGED <<zone, query, mode, outcome, outbound, notResolver>>

\* the response names a server and gives its address: ns = new_ns; continue
Referral ==
    /\ frames # <<>>
    /\ Top.pc = "received"
    /\ ~Answered(Top.response)
    /\ get_resolved_ns(Top.response, Top.qname) # None
    /\ frames' = WithTop([Top EXCEPT !.pc = "send_query",
                               !.ns = get_resolved_ns(Top.response, Top.qname)[1],
                               !.referrals = @ + 1])
    /\ UNCHANGED <<zone, query, mode, outcome, outbound, notResolver>>

\* the name of a server is resolved whether the response has an address
\* of a server or not
ResolveNs_unguarded ==
    /\ frames # <<>>
    /\ Top.pc = "received"
    /\ ~Answered(Top.response)
    /\ IF get_unresolved_ns(Top.response, Top.qname) = {}
       THEN frames' = WithTop([Top EXCEPT !.pc = "return"])
       ELSE /\ Len(frames) <= MaxDepth
            /\ \E new_ns_name \in get_unresolved_ns(Top.response, Top.qname) :
                   frames' = Append(WithTop([Top EXCEPT !.pc = "recursive_response"]),
                                    Frame(new_ns_name, QT("A")))
    /\ UNCHANGED <<zone, query, mode, outcome, outbound, notResolver>>

\* the response gives no address: it is returned when it names no server,
\* else resolve is called for the name of one of the servers
ResolveNs ==
    /\ frames # <<>>
    /\ Top.pc = "received"
    /\ ~Answered(Top.response)
    /\ get_resolved_ns(Top.response, Top.qname) = None
    /\ IF get_unresolved_ns(Top.response, Top.qname) = {}
       THEN frames' = WithTop([Top EXCEPT !.pc = "return"])
       ELSE /\ Len(frames) <= MaxDepth
            /\ \E new_ns_name \in get_unresolved_ns(Top.response, Top.qname) :
                   frames' = Append(WithTop([Top EXCEPT !.pc = "recursive_response"]),
                                    Frame(new_ns_name, QT("A")))
    /\ UNCHANGED <<zone, query, mode, outcome, outbound, notResolver>>

\* the CNAME walk that leaves the response code and the count of the header
\* as they are
Resume_appending(f, g, new_ns) ==
    IF f.pc = "cname_resp"
    THEN [f EXCEPT !.pc = "cname", !.next = @ + 1,
                   !.cname_responses = @ \o g.response.answers,
                   !.chased = Append(@, [qname |-> g.qname, qtype |-> g.qtype,
                                         response |-> g.response])]
    ELSE IF new_ns = None
         THEN [f EXCEPT !.pc = "return"]
         ELSE [f EXCEPT !.pc = "send_query", !.ns = new_ns[1], !.referrals = @ + 1]

\* the caller of a call of resolve, at the statement after the call, when
\* the call g returns its response: lines 102-107 after a CNAME record,
\* lines 133-137 after the name of a server
Resume(f, g, new_ns) ==
    IF f.pc = "cname_resp"
    THEN [f EXCEPT !.pc = "cname", !.next = @ + 1,
                   !.response.header.rescode = g.response.header.rescode,
                   !.response.header.answers = (@ + Len(g.response.answers)) % 65536,
                   !.cname_responses = @ \o g.response.answers,
                   !.chased = Append(@, [qname |-> g.qname, qtype |-> g.qtype,
                                         response |-> g.response])]
    ELSE IF new_ns = None
         THEN [f EXCEPT !.pc = "return"]
         ELSE [f EXCEPT !.pc = "send_query", !.ns = new_ns[1], !.referrals = @ + 1]

\* return Ok(response)
Return ==
    /\ frames # <<>>
    /\ Top.pc = "return"
    /\ IF Len(frames) = 1
       THEN /\ frames' = <<>>
            /\ outcome' = Some(OkOf(Top.response))
       ELSE /\ outcome' = outcome
            /\ \E new_ns \in get_random_a(Top.response) :
                   frames' = [SubSeq(frames, 1, Len(frames) - 1)
                                  EXCEPT ![Len(frames) - 1] = Resume(@, Top, new_ns)]
    /\ UNCHANGED <<zone, query, mode, outbound, notResolver>>

ResolverNext == Resolve \/ SendQuery \/ Done \/ NextCname \/ Referral \/ ResolveNs \/ Return

----------------------------------------------------------------------------
(* Worker pool (server.rs).  Threadpool::new spawns the workers; each runs *)
(* the loop of Worker::new: lock the receiver, block in recv with the lock *)
(* held, release the lock, run the task.  The server threads hand every    *)
(* request to Threadpool::execute.  The thread of a server owns its pool:   *)
(* pool is where that thread is, serving requests or in Drop::drop.  The   *)
(* receiver is dropped when the last thread of a worker has ended, and a   *)
(* send on the channel fails from then on.  A thread that panics in        *)
(* Drop::drop goes no further.                                             *)
(*                                                                         *)
(* A task is kept as what its body does: it answers its client, it returns *)
(* early (a parse, write or send error that the body matches on), or it    *)
(* panics on an unwrap or expect: stream.read(&mut len_buf).unwrap() of    *)
(* the TCP task, socket_clone.lock().unwrap() of the UDP task, and         *)
(* packet.write(&mut req_buffer).unwrap() and recv_from(..).unwrap() of    *)
(* the transport client the task calls.                                    *)

NumWorkers == 2
MaxTasks == 3

Workers == 1..NumWorkers

Tasks == {"answers", "returns", "panics"}

\* Message: NewTask(task) and Terminate; n is an observation, the number of
\* the call of execute that sent the task
NewTask(n, task) == [n |-> n, task |-> task]
Terminate == [n |-> 0, task |-> "Terminate"]

\* no thread holds the lock of the receiver
Unlocked == 0

\* taken is an observation: the numbers of the tasks the worker has
\* received, in order
PoolInit ==
    /\ receiver = <<>>
    /\ lock = Unlocked
    /\ workers = [w \in Workers |-> [at |-> "lock", task |-> None, ran |-> 0,
                                     taken |-> <<>>]]
    /\ incoming = 0
    /\ pool = [at |-> "serving", sent |-> 0, joined |-> 0]

PoolIdle ==
    /\ receiver = Idle /\ lock = Idle /\ workers = Idle /\ incoming = Idle
    /\ pool = Idle

\* the thread of the worker has ended: it left its loop or it panicked
Ended(w) == workers[w].at \in {"exited", "dead"}

\* every clone of the Arc of the receiver is dropped
Disconnected == \A w \in Workers : Ended(w)

\* Threadpool::execute, called by the thread of the server for a request;
\* the expect panics when the send fails, and the pool is dropped as the
\* thread unwinds
execute(task) ==
    /\ pool.at = "serving"
    /\ incoming < MaxTasks
    /\ incoming' = incoming + 1
    /\ IF Disconnected
       THEN /\ receiver' = receiver
            /\ pool' = [pool EXCEPT !.at = "terminate"]
       ELSE /\ receiver' = Append(receiver, NewTask(incoming + 1, task))
            /\ pool' = pool
    /\ UNCHANGED <<lock, workers, notPool>>

PoolExecute == \E task \in Tasks : execute(task)

\* receiver.lock()
worker_lock(w) ==
    /\ workers[w].at = "lock"
    /\ lock = Unlocked
    /\ lock' = w
    /\ workers' = [workers EXCEPT ![w].at = "recv"]
    /\ UNCHANGED <<receiver, incoming, pool, notPool>>

WorkerLock == \E w \in Workers : worker_lock(w)

\* the numbers of the tasks a worker has received, with the one of message
taking(taken, message) ==
    IF message = Terminate THEN taken ELSE Append(taken, message.n)

\* the worker with the guard of the lock kept while the task runs
worker_recv_holding(w) ==
    /\ workers[w].at = "recv"
    /\ receiver # <<>>
    /\ receiver' = Tail(receiver)
    /\ lock' = lock
    /\ workers' = [workers EXCEPT ![w].at = "task", ![w].task = Some(Head(receiver)),
                                  ![w].taken = taking(@, Head(receiver))]
    /\ UNCHANGED <<incoming, pool, notPool>>

\* .recv() returns a message; the guard of the lock is dropped at the end
\* of the statement
worker_recv(w) ==
    /\ workers[w].at = "recv"
    /\ receiver # <<>>
    /\ receiver' = Tail(receiver)
    /\ lock' = Unlocked
    /\ workers' = [workers EXCEPT ![w].at = "task", ![w].task = Some(Head(receiver)),
                                  ![w].taken = taking(@, Head(receiver))]
    /\ UNCHANGED <<incoming, pool, notPool>>

WorkerRecv == \E w \in Workers : worker_recv(w)

\* match message: Terminate breaks out of the loop and the thread ends;
\* NewTask(task) => task(): the loop goes on when the task returns; a panic
\* of the task unwinds the closure of the thread, which catches nothing,
\* and the thread ends
after_message(message, worker) ==
    IF message = Terminate THEN [worker EXCEPT !.at = "exited", !.task = None]
    ELSE IF message.task = "panics" THEN [worker EXCEPT !.at = "dead", !.task = None]
    ELSE [worker EXCEPT !.at = "lock", !.task = None, !.ran = @ + 1]

worker_task(w) ==
    /\ workers[w].at = "task"
    /\ workers' = [workers EXCEPT ![w] = after_message(workers[w].task[1], @)]
    /\ UNCHANGED <<receiver, lock, incoming, pool, notPool>>

WorkerTask == \E w \in Workers : worker_task(w)

\* the owner of the pool lets go of it: Drop::drop starts
PoolDrop ==
    /\ pool.at = "serving"
    /\ pool' = [pool EXCEPT !.at = "terminate"]
    /\ UNCHANGED <<receiver, lock, workers, incoming, notPool>>

\* for _ in &self.workers { self.transmitter.send(Message::Terminate).unwrap() }:
\* one iteration; the unwrap panics when the send fails
DropSend ==
    /\ pool.at = "terminate"
    /\ IF Disconnected
       THEN /\ pool' = [pool EXCEPT !.at = "panicked"]
            /\ receiver' = receiver
       ELSE /\ pool' = [pool EXCEPT !.sent = @ + 1,
                                    !.at = IF pool.sent + 1 = NumWorkers
                                           THEN "join" ELSE "terminate"]
            /\ receiver' = Append(receiver, Terminate)
    /\ UNCHANGED <<lock, workers, incoming, notPool>>

\* for worker in &mut self.workers { thread.join().unwrap() }: one
\* iteration; join returns when the thread has ended, with Err when it
\* panicked, and the unwrap panics
DropJoin ==
    /\ pool.at = "join"
    /\ Ended(pool.joined + 1)
    /\ pool' = IF workers[pool.joined + 1].at = "dead"
               THEN [pool EXCEPT !.at = "panicked"]
               ELSE [pool EXCEPT !.joined = @ + 1,
                                 !.at = IF pool.joined + 1 = NumWorkers
                                        THEN "dropped" ELSE "join"]
    /\ UNCHANGED <<receiver, lock, workers, incoming, notPool>>

PoolNext ==
    \/ PoolExecute \/ WorkerLock \/ WorkerRecv \/ WorkerTask
    \/ PoolDrop \/ DropSend \/ DropJoin

----------------------------------------------------------------------------
(* A task of a server (server.rs): the closure UdpServer::run hands to the *)
(* pool for a datagram it received, and the closure TcpServer::run hands   *)
(* to the pool for a connection it accepted.  stream_in is what the client *)
(* sent: the datagram, or the length prefix and the message.  replies is   *)
(* what the task has sent to the client: the datagrams, or the writes to   *)
(* the stream.  io is how the last operation on the socket or the stream   *)
(* of the client went, resolves the number of calls of resolver.resolve.   *)
(* The resolver is kept as what its call returns, which depends on what    *)
(* happens to the exchange of the transport client with the name server.   *)

\* ServerContext::new; nothing assigns the field afterwards
allow_recursion == TRUE

RequestIds == {4660, 65535}

\* the question sections of the requests: none, one question, a question of
\* a type the server does not know, two questions
RequestQuestions ==
    { <<>>, <<DnsQuestion_new(Name_ab, QT("A"))>>,
      <<DnsQuestion_new(Name_ab, QT_UNKNOWN(16))>>,
      <<DnsQuestion_new(Name_ab, QT("A")), DnsQuestion_new(Name_c, QT("NS"))>> }

RequestOf(id, rd, qd) ==
    [DnsPacket_new EXCEPT !.header.id = id, !.header.recursion_desired = rd,
                          !.questions = qd]

\* the bytes of a packet on the wire
BytesOf(p) == DnsPacket_write(p, NewBuffer).buf.buf

\* a header that announces one question, followed by a name that is a
\* pointer past the end of the message, and by a pointer to itself
HeaderBytes == <<18, 52, 1, 0, 0, 1, 0, 0, 0, 0, 0, 0>>
BadPointer == HeaderBytes \o <<195, 0>>
LoopPointer == HeaderBytes \o <<192, 12>>

Messages ==
    { BytesOf(RequestOf(id, rd, qd)) :
        id \in RequestIds, rd \in BOOLEAN, qd \in RequestQuestions }
    \cup {BadPointer, LoopPointer}

\* the two bytes of a length, high byte first, and the length they stand for
LenPrefix(len) == <<(len \div 256) % 256, len % 256>>
buf_len(len_buf) == len_buf[1] * 256 + len_buf[2]

\* the packets a resolver returns: an address, no such name, records in the
\* three sections, a CNAME record with the address of its host, answers of
\* 207 bytes with a name server whose name makes the response to a query for
\* "a.b" 511, 512 and 513 bytes long, and three answers of 207 bytes
BigA == RecA(Name_big, Addr4, U32(0, 300))
ResolvedPackets ==
    { Reply(NOERROR, <<RecA(Name_ab, Addr4, U32(0, 300))>>, <<>>, <<>>),
      Reply(NXDOMAIN, <<>>, <<>>, <<>>),
      Reply(NOERROR, <<RecA(Name_ab, Addr4, U32(0, 300)), RecA(Name_ab, OtherServer, U32(0, 60))>>,
            <<RecUNKNOWN(Name_ab, 6, 30, U32(0, 900))>>,
            <<RecAAAA(Name_c, Addr6, U32(0, 300)), RecA(Name_c, Addr4, U32(0, 300))>>),
      Reply(NOERROR, <<RecCNAME(Name_ab, Name_c, U32(0, 60)), RecA(Name_c, Addr4, U32(0, 300))>>,
            <<>>, <<>>),
      Reply(NOERROR, <<BigA, BigA, BigA>>, <<>>, <<>>) }
    \cup { Reply(NOERROR, <<BigA, BigA>>, <<RecNS(Name_ab, Rep(104, n), U32(0, 300))>>, <<>>) :
             n \in {59, 60, 61} }

\* what can happen to the exchange of send_query with the name server: over
\* UDP the reply arrives, send_to fails, recv_from fails, no reply arrives,
\* the reply does not parse; when the reply over UDP has its TC bit set, over
\* TCP the reply arrives, connect fails, a write fails, the read of the
\* length fails, the read of the message fails, the reply does not parse
TransportFailures ==
    {"send_fails", "recv_fails", "no_reply", "bad_reply", "connect_fails",
     "tcp_write_fails", "tcp_len_fails", "tcp_read_fails", "tcp_bad_reply"}
TransportEvents == {"reply", "tcp_reply"} \cup TransportFailures

\* what a call returns: a value, an error, or nothing because the thread
\* panics or waits for ever; event is what happened to the exchange
Returned(event, kind, v) == [event |-> event, kind |-> kind, v |-> v]

\* NetworkClient::send_query: the ? of send_to, of connect, of the writes
\* and of the read of the length return the error, from_buffer returns its
\* own, the unwrap of recv_from and of the read of the message panic, and
\* recv_from without a datagram does not return
send_query_returns(event, packet) ==
    CASE event \in {"reply", "tcp_reply"} -> Returned(event, "ok", packet)
      [] event \in {"send_fails", "bad_reply", "connect_fails", "tcp_write_fails",
                    "tcp_len_fails", "tcp_bad_reply"} ->
             Returned(event, "err", DnsPacket_new)
      [] event \in {"recv_fails", "tcp_read_fails"} -> Returned(event, "panic", DnsPacket_new)
      [] event = "no_reply" -> Returned(event, "blocked", DnsPacket_new)

\* resolver.resolve(&question.name, question.qtype, true)
resolve(question, event, packet) ==
    IF question.qtype.t = "UNKNOWN"
    THEN Returned("none", "ok", [DnsPacket_new EXCEPT !.header.rescode = NOTIMP])
    ELSE send_query_returns(event, packet)

\* the response packet execute_query prepares
PrepareResponse(req) ==
    [DnsPacket_new EXCEPT !.header.id = req.header.id,
                          !.header.recursion_desired = req.header.recursion_desired,
                          !.header.recursion_available = allow_recursion,
                          !.header.response = TRUE]

\* execute_query without its test of the questions: no question is an error
execute_query_resolving(req, r) ==
    IF req.questions # <<>> /\ r.kind = "ok"
    THEN [PrepareResponse(req) EXCEPT !.questions = <<req.questions[1]>>,
                                      !.header.rescode = r.v.header.rescode,
                                      !.answers = r.v.answers,
                                      !.authorities = r.v.authorities,
                                      !.resources = r.v.resources]
    ELSE [PrepareResponse(req) EXCEPT !.header.rescode = SERVFAIL]

\* execute_query with a response that keeps the id of DnsPacket::new
execute_query_fresh(req, r) ==
    [execute_query_resolving(req, r) EXCEPT !.header.id = 0]

\* execute_query(request, context), r being what resolve returned
execute_query(req, r) ==
    IF req.questions = <<>>
    THEN [PrepareResponse(req) EXCEPT !.header.rescode = FORMERR]
    ELSE IF r.kind = "ok"
    THEN [PrepareResponse(req) EXCEPT !.questions = <<req.questions[1]>>,
                                      !.header.rescode = r.v.header.rescode,
                                      !.answers = r.v.answers,
                                      !.authorities = r.v.authorities,
                                      !.resources = r.v.resources]
    ELSE [PrepareResponse(req) EXCEPT !.header.rescode = SERVFAIL]

Transports == {"udp", "tcp"}

TaskInit ==
    /\ transport \in Transports
    /\ \E message \in Messages :
           stream_in = IF transport = "udp" THEN message
                       ELSE LenPrefix(Len(message)) \o message
    /\ req_buffer = IF transport = "udp" THEN Some([NewBuffer EXCEPT !.buf = stream_in])
                    ELSE None
    /\ request = None
    /\ result = None
    /\ response = None
    /\ res_buffer = None
    /\ replies = <<>>
    /\ resolves = 0
    /\ io = "none"
    /\ tpc = IF transport = "udp" THEN "from_buffer" ELSE "read"

TaskIdle ==
    /\ transport = Idle /\ stream_in = Idle /\ req_buffer = Idle /\ request = Idle
    /\ result = Idle /\ response = Idle /\ res_buffer = Idle /\ replies = Idle
    /\ resolves = Idle /\ io = Idle /\ tpc = Idle

\* the TCP task reads the length and then the message from the stream: the
\* first read is unwrapped, the error of the second ends the task
tcp_read ==
    /\ tpc = "read"
    /\ \E how \in {"ok", "len_fails", "body_fails"} :
           /\ io' = IF how = "ok" THEN "ok" ELSE "fails"
           /\ tpc' = CASE how = "ok" -> "from_buffer"
                       [] how = "len_fails" -> "panicked"
                       [] how = "body_fails" -> "done"
           /\ req_buffer' =
                  IF how = "ok"
                  THEN Some([VariableBuffer_new(buf_len(SubSeq(stream_in, 1, 2)))
                                EXCEPT !.buf = SubSeq(stream_in, 3, Len(stream_in))])
                  ELSE req_buffer
    /\ UNCHANGED <<transport, stream_in, request, result, response, res_buffer,
                   replies, resolves, notTask>>

\* from_buffer with the error ignored: the task goes on with what was read
parsed_anyway(r) ==
    /\ req_buffer' = Some(r.s)
    /\ request' = Some(r.v)
    /\ tpc' = "execute_query"

\* the match on what DnsPacket::from_buffer returned: an error ends the task
parsed(r) ==
    /\ req_buffer' = Some(r.s)
    /\ request' = IF r.err = Ok THEN Some(r.v) ELSE request
    /\ tpc' = CASE r.err = Ok -> "execute_query"
                [] r.err = Diverges -> "diverges"
                [] OTHER -> "done"

\* let request = match DnsPacket::from_buffer(&mut req_buffer)
from_buffer ==
    /\ tpc = "from_buffer"
    /\ parsed(DnsPacket_from_buffer(req_buffer[1]))
    /\ UNCHANGED <<transport, stream_in, result, response, res_buffer, replies,
                   resolves, io, notTask>>

\* execute_query after its call of resolve: a resolver that panics or waits
\* for ever takes the task with it
resolved(r) ==
    /\ result' = Some(r)
    /\ resolves' = resolves + 1
    /\ response' = IF r.kind \in {"ok", "err"} THEN Some(execute_query(request[1], r))
                   ELSE response
    /\ tpc' = CASE r.kind \in {"ok", "err"} -> "write"
                [] r.kind = "panic" -> "panicked"
                [] r.kind = "blocked" -> "blocked"

\* let mut response = execute_query(request, context)
ExecuteQuery ==
    /\ tpc = "execute_query"
    /\ IF request[1].questions = <<>>
       THEN /\ response' = Some(execute_query(request[1], Returned("none", "err", DnsPacket_new)))
            /\ tpc' = "write"
            /\ UNCHANGED <<result, resolves>>
       ELSE \E event \in TransportEvents, packet \in ResolvedPackets :
                resolved(resolve(request[1].questions[1], event, packet))
    /\ UNCHANGED <<transport, stream_in, req_buffer, request, res_buffer, replies, io,
                   notTask>>

\* the match on what response.write(&mut res_buffer) returned
written(w) ==
    /\ response' = Some(w.pkt)
    /\ res_buffer' = IF w.err = Ok THEN Some(w.buf) ELSE res_buffer
    /\ tpc' = CASE w.err = Ok -> "reply"
                [] w.err = Panic -> "panicked"
                [] OTHER -> "done"

\* response.write(&mut res_buffer): the buffer is a BytePacketBuffer in the
\* UDP task and an ExtendingBuffer in the TCP task
WriteResponse ==
    /\ tpc = "write"
    /\ written(DnsPacket_write(response[1], IF transport = "udp" THEN NewBuffer
                                            ELSE ExtendingBuffer_new))
    /\ UNCHANGED <<transport, stream_in, req_buffer, request, result, replies, resolves,
                   io, notTask>>

\* the UDP task after get_range: send_to with the lock of the socket
udp_send_to(res_data) ==
    IF res_data.err = Ok
    THEN \E how \in {"ok", "fails"} :
             /\ io' = how
             /\ replies' = IF how = "ok" THEN Append(replies, res_data.v) ELSE replies
             /\ tpc' = "done"
    ELSE /\ tpc' = IF res_data.err = Panic THEN "panicked" ELSE "done"
         /\ UNCHANGED <<io, replies>>

\* let res_data = match res_buffer.get_range(0, res_len), and the send
udp_reply ==
    /\ tpc = "reply"
    /\ transport = "udp"
    /\ udp_send_to(get_range(res_buffer[1], 0, res_buffer[1].head))
    /\ UNCHANGED <<transport, stream_in, req_buffer, request, result, response,
                   res_buffer, resolves, notTask>>

\* the TCP task after get_range: the length goes to the stream, then the
\* data; the error of a write ends the task
tcp_write(res_len, res_data) ==
    IF res_data.err = Ok
    THEN \E how \in {"ok", "len_fails", "data_fails"} :
             /\ io' = IF how = "ok" THEN "ok" ELSE "fails"
             /\ replies' = CASE how = "ok" -> replies \o <<LenPrefix(res_len), res_data.v>>
                             [] how = "len_fails" -> replies
                             [] how = "data_fails" -> Append(replies, LenPrefix(res_len))
             /\ tpc' = "done"
    ELSE /\ tpc' = IF res_data.err = Panic THEN "panicked" ELSE "done"
         /\ UNCHANGED <<io, replies>>

tcp_reply ==
    /\ tpc = "reply"
    /\ transport = "tcp"
    /\ tcp_write(res_buffer[1].head, get_range(res_buffer[1], 0, res_buffer[1].head))
    /\ UNCHANGED <<transport, stream_in, req_buffer, request, result, response,
                   res_buffer, resolves, notTask>>

TaskNext == tcp_read \/ from_buffer \/ ExecuteQuery \/ WriteResponse \/ udp_reply \/ tcp_reply

----------------------------------------------------------------------------
(* The listening socket of the UDP server (server.rs).  UdpServer::run     *)
(* keeps the socket for its thread, which receives the requests, and puts  *)
(* a clone of it in a mutex, socket_ptr, which every task gets: a task     *)
(* sends its response with socket_clone.lock().unwrap().send_to(..).  The  *)
(* guard of the lock is a temporary of the scrutinee of the match, so it   *)
(* is dropped at the end of the match.  What a task does before it sends   *)
(* does not touch the socket.  socket_ptr is the task that holds the lock, *)
(* accepted has for each datagram received who held the lock then.         *)

NumSenders == 3
MaxDatagrams == 4

Senders == 1..NumSenders

ListenInit ==
    /\ socket_ptr = Unlocked
    /\ senders = [w \in Senders |-> "idle"]
    /\ accepted = <<>>

ListenIdle == socket_ptr = Idle /\ senders = Idle /\ accepted = Idle

\* socket.recv_from(&mut req_buffer.buf) of the thread of the server, which
\* hands the task to the pool: a worker that is free runs it
listen_recv_from(w) ==
    /\ Len(accepted) < MaxDatagrams
    /\ senders[w] = "idle"
    /\ accepted' = Append(accepted, socket_ptr)
    /\ senders' = [senders EXCEPT ![w] = "lock"]
    /\ UNCHANGED <<socket_ptr, notListen>>

ListenRecvFrom == \E w \in Senders : listen_recv_from(w)

\* a lock that does not wait for the task that holds it
socket_lock_shared(w) ==
    /\ senders[w] = "lock"
    /\ socket_ptr' = w
    /\ senders' = [senders EXCEPT ![w] = "send_to"]
    /\ UNCHANGED <<accepted, notListen>>

\* socket_clone.lock().unwrap()
socket_lock(w) ==
    /\ senders[w] = "lock"
    /\ socket_ptr = Unlocked
    /\ socket_ptr' = w
    /\ senders' = [senders EXCEPT ![w] = "send_to"]
    /\ UNCHANGED <<accepted, notListen>>

SocketLock == \E w \in Senders : socket_lock(w)

\* .send_to(res_data, raddr) returns
socket_send_to(w) ==
    /\ senders[w] = "send_to"
    /\ senders' = [senders EXCEPT ![w] = "sent"]
    /\ UNCHANGED <<socket_ptr, accepted, notListen>>

SocketSendTo == \E w \in Senders : socket_send_to(w)

\* the end of the match: the guard is dropped and the task ends
socket_unlock(w) ==
    /\ senders[w] = "sent"
    /\ socket_ptr' = IF socket_ptr = w THEN Unlocked ELSE socket_ptr
    /\ senders' = [senders EXCEPT ![w] = "idle"]
    /\ UNCHANGED <<accepted, notListen>>

SocketUnlock == \E w \in Senders : socket_unlock(w)

ListenNext == ListenRecvFrom \/ SocketLock \/ SocketSendTo \/ SocketUnlock

----------------------------------------------------------------------------
(* The operations of ByteBuffer called on a buffer (buffer.rs)             *)

MaxContent == 3

Offsets == {0, 1, 2, 3, 511, 512}

\* a BytePacketBuffer or an ExtendingBuffer that holds n bytes, the cursor
\* at head
FixedBufferOf(n, head) == [buf |-> [i \in 1..n |-> i], head |-> head, err |-> Ok]
GrowableBufferOf(n, head) ==
    [buf |-> [i \in 1..n |-> i], head |-> head, err |-> Ok, vec |-> TRUE]

BufferOpsInit ==
    /\ call = "new"
    /\ \E n \in 0..MaxContent :
          args \in [buffer : {FixedBufferOf(n, head) : head \in {0, n, MAX_SIZE}}
                                 \cup {GrowableBufferOf(n, head) : head \in 0..n},
                    offset : Offsets]
    /\ ret = None

\* an operation is called: ret is its error, Ok when it has none
CallRead ==
    /\ call = "new"
    /\ call' = "read"
    /\ ret' = read(args.buffer).s.err
    /\ UNCHANGED <<args, notCall>>

CallWrite ==
    /\ call = "new"
    /\ call' = "write"
    /\ ret' = write(args.buffer, 7).err
    /\ UNCHANGED <<args, notCall>>

CallGet ==
    /\ call = "new"
    /\ call' = "get"
    /\ ret' = get(args.buffer, args.offset).err
    /\ UNCHANGED <<args, notCall>>

CallGetRange ==
    /\ call = "new"
    /\ call' = "get_range"
    /\ ret' = get_range(args.buffer, args.offset, 1).err
    /\ UNCHANGED <<args, notCall>>

CallSet ==
    /\ call = "new"
    /\ call' = "set"
    /\ ret' = set(args.buffer, args.offset, 7).err
    /\ UNCHANGED <<args, notCall>>

CallSetU16 ==
    /\ call = "new"
    /\ call' = "set_u16"
    /\ ret' = set_u16(args.buffer, args.offset, 7).err
    /\ UNCHANGED <<args, notCall>>

CallReadQname ==
    /\ call = "new"
    /\ call' = "read_qname"
    /\ ret' = read_qname(args.buffer).s.err
    /\ UNCHANGED <<args, notCall>>

CallWriteQname ==
    /\ call = "new"
    /\ call' = "write_qname"
    /\ ret' = write_qname(args.buffer, Name_ab).err
    /\ UNCHANGED <<args, notCall>>

BufferOpsNext ==
    \/ CallRead \/ CallWrite \/ CallGet \/ CallGetRange
    \/ CallSet \/ CallSetU16 \/ CallReadQname \/ CallWriteQname

----------------------------------------------------------------------------
(* The next hop of a referral (protocol.rs): get_resolved_ns and           *)
(* get_unresolved_ns are called on a packet with a name                    *)

MaxSection == 2

\* authorities: name servers "c" and "mail.a.test" for "a.b", the name
\* server "c" for "b" and for "a.test", and an A record
NsAuthorities ==
    { RecNS(Name_ab, Name_c, U32(0, 300)), RecNS(Name_ab, Name_mail, U32(0, 300)),
      RecNS(<<98>>, Name_c, U32(0, 300)), RecNS(Name_atest, Name_c, U32(0, 300)),
      RecA(Name_ab, Addr4, U32(0, 300)) }

\* additionals: two addresses of "c", an address of "mail.a.test", an AAAA
\* record of "c"
NsResources ==
    { RecA(Name_c, RootServer, U32(0, 300)), RecA(Name_c, OtherServer, U32(0, 300)),
      RecA(Name_mail, Addr4, U32(0, 300)), RecAAAA(Name_c, Addr6, U32(0, 300)) }

\* "ab", which ends with "b" and is no name of the zone "b"
Name_xb == <<97, 98>>

NextHopInit ==
    /\ call = "new"
    /\ args \in [packet : {Reply(NOERROR, <<>>, ns, ar) :
                              ns \in SeqsUpTo(NsAuthorities, MaxSection),
                              ar \in SeqsUpTo(NsResources, MaxSection)},
                 qname : {Name_ab, Name_c, Name_xb}]
    /\ ret = None

\* response.get_resolved_ns(qname)
CallGetResolvedNs ==
    /\ call = "new"
    /\ call' = "get_resolved_ns"
    /\ ret' = get_resolved_ns(args.packet, args.qname)
    /\ UNCHANGED <<args, notCall>>

\* response.get_unresolved_ns(qname)
CallGetUnresolvedNs ==
    /\ call = "new"
    /\ call' = "get_unresolved_ns"
    /\ IF get_unresolved_ns(args.packet, args.qname) = {}
       THEN ret' = None
       ELSE \E host \in get_unresolved_ns(args.packet, args.qname) : ret' = Some(host)
    /\ UNCHANGED <<args, notCall>>

NextHopNext == CallGetResolvedNs \/ CallGetUnresolvedNs

----------------------------------------------------------------------------
(* DnsPacket::get_random_a called on a packet (protocol.rs)                *)

MaxAnswerRecords == 3

\* answers: two addresses of "a.b", a CNAME record and an AAAA record
RandomAnswers ==
    { RecA(Name_ab, Addr4, U32(0, 300)), RecA(Name_ab, OtherServer, U32(0, 300)),
      RecCNAME(Name_ab, Name_c, U32(0, 300)), RecAAAA(Name_ab, Addr6, U32(0, 300)) }

RandomAInit ==
    /\ call = "new"
    /\ args \in [packet : {Reply(NOERROR, an, <<>>, <<>>) :
                              an \in SeqsUpTo(RandomAnswers, MaxAnswerRecords)}]
    /\ ret = None

\* packet.get_random_a(): the random index selects one of the answers
CallGetRandomA ==
    /\ call = "new"
    /\ call' = "get_random_a"
    /\ \E new_ns \in get_random_a(args.packet) : ret' = new_ns
    /\ UNCHANGED <<args, notCall>>

RandomANext == CallGetRandomA

----------------------------------------------------------------------------
(* write_qname and read_qname called on a buffer (buffer.rs): a name is    *)
(* written at an offset of a fresh buffer and read back from that offset,  *)
(* or the name at an offset of a received buffer is read                   *)

\* the names of the name codec and "w." followed by a label of 64 bytes
WrittenNames == NameInputs \cup {<<119, DOT>> \o Rep(121, 64)}

\* the received buffers of the name codec and: "Ab" at 12 and, at 16, the
\* label "C" followed by a pointer to 12; "a" at 12 and, at 15, a label
\* that holds a dot
ReceivedNames ==
    RawInputs \cup
    { [buf |-> Zeros(12) \o <<2, 65, 98, 0, 1, 67, 192, 12>>, at |-> 16],
      [buf |-> Zeros(12) \o <<1, 97, 0, 1, DOT, 192, 12>>, at |-> 15] }

NamesInit ==
    /\ call = "new"
    /\ \/ \E n \in WrittenNames : \E at \in StartOffsets(n) :
            args = [kind |-> "name", name |-> n, buf |-> <<>>, at |-> at]
       \/ \E r \in ReceivedNames :
            args = [kind |-> "bytes", name |-> <<>>, buf |-> r.buf, at |-> r.at]
    /\ ret = None

\* buffer.seek(at); buffer.write_qname(&name): ret is the buffer after the call
NameWrite ==
    /\ call = "new"
    /\ args.kind = "name"
    /\ call' = "write_qname"
    /\ ret' = write_qname(seek(NewBuffer, args.at), args.name)
    /\ UNCHANGED <<args, notCall>>

\* what the calls leave behind: the buffer after write_qname, the buffer
\* after read_qname and the name read
NameRead(before, r) == [written |-> before, s |-> r.s, v |-> r.v]

\* buffer.seek(at); buffer.read_qname(&mut name) on the buffer written
NameReadBack ==
    /\ call = "write_qname"
    /\ ret.err = Ok
    /\ call' = "read_qname"
    /\ ret' = NameRead(ret, read_qname(seek(ret, args.at)))
    /\ UNCHANGED <<args, notCall>>

\* buffer.seek(at); buffer.read_qname(&mut name) on a received buffer
NameReadReceived ==
    /\ call = "new"
    /\ args.kind = "bytes"
    /\ call' = "read_qname"
    /\ ret' = NameRead([buf |-> args.buf, head |-> args.at, err |-> Ok],
                       read_qname([buf |-> args.buf, head |-> args.at, err |-> Ok]))
    /\ UNCHANGED <<args, notCall>>

NamesNext == NameWrite \/ NameReadBack \/ NameReadReceived

----------------------------------------------------------------------------
(* DnsRecord::write called on a record and a buffer (protocol.rs)          *)

\* the domains, the hosts (one with a label of 64 bytes) and the cursors of
\* the buffer the record is written to
RecordDomains == {Name_ab, Name_atest, Name_big}
RecordHosts == {Name_c, Name_mail, Name_big, <<119, DOT>> \o Rep(121, 64)}
RecordOffsets == {0, 12, 300, 480, 495}

WrittenRecords ==
    UNION { { RecA(d, Addr4, U32(0, 300)), RecAAAA(d, Addr6, U32(0, 300)),
              RecUNKNOWN(d, 16, 9, U32(0, 300)) }
            \cup { RecNS(d, h, U32(0, 300)) : h \in RecordHosts }
            \cup { RecCNAME(d, h, U32(0, 60)) : h \in RecordHosts }
            \cup { RecMX(d, 10, h, U32(0, 3600)) : h \in RecordHosts }
          : d \in RecordDomains }

RecordWriteInit ==
    /\ call = "new"
    /\ args \in [record : WrittenRecords,
                 buffer : {seek(NewBuffer, at) : at \in RecordOffsets}]
    /\ ret = None

\* `Ok(buffer.head() - start_pos)` or the error of the call that failed
Written(start_pos, s) ==
    [s |-> s, err |-> s.err, v |-> IF s.err = Ok THEN s.head - start_pos ELSE 0]

\* record.write(&mut buffer): the buffer after the call and what it returns
CallRecordWrite ==
    /\ call = "new"
    /\ call' = "write"
    /\ ret' = Written(args.buffer.head, DnsRecord_write(args.record, args.buffer))
    /\ UNCHANGED <<args, notCall>>

RecordWriteNext == CallRecordWrite

----------------------------------------------------------------------------
(* DnsPacket::write called on a packet (protocol.rs): a response is        *)
(* written to a fresh buffer and written a second time to another, or the  *)
(* bytes are parsed and the packet parsed is written                       *)

\* "w." followed by a label of 64 bytes, which read_qname returns for a
\* length byte of 64
Name_long == <<119, DOT>> \o Rep(121, 64)

\* the answers: an address, a CNAME record whose host is Name_long and an
\* address whose record is 207 bytes long
WrittenAnswers ==
    { RecA(Name_atest, Addr4, U32(0, 300)), RecCNAME(Name_ab, Name_long, U32(0, 60)),
      RecA(Name_big, Addr4, U32(1, 4464)) }

PacketWriteInit ==
    /\ call = "new"
    /\ args \in [packet :
          { PacketOf(qd, an, ns, <<>>, FALSE) :
              qd \in {<<>>, <<DnsQuestion_new(Name_ab, QT("A"))>>},
              an \in SeqsUpTo(WrittenAnswers, MaxAnswerRecords),
              ns \in {<<>>, <<RecNS(Name_ab, Name_c, U32(2, 41728))>>} }]
    /\ ret = None

\* packet.write(&mut BytePacketBuffer::new())
PacketWrite ==
    /\ call = "new"
    /\ call' = "write"
    /\ ret' = [first |-> DnsPacket_write(args.packet, NewBuffer)]
    /\ UNCHANGED <<args, notCall>>

\* packet.write(&mut BytePacketBuffer::new()) a second time, on the packet
\* as the first call left it
PacketWriteAgain ==
    /\ call = "write"
    /\ ret.first.err = Ok
    /\ call' = "write_again"
    /\ ret' = [first |-> ret.first,
               second |-> DnsPacket_write(ret.first.pkt, NewBuffer)]
    /\ UNCHANGED <<args, notCall>>

\* DnsPacket::from_buffer on the bytes written
PacketParse ==
    /\ call = "write"
    /\ ret.first.err = Ok
    /\ call' = "from_buffer"
    /\ ret' = [first |-> ret.first,
               parsed |-> ParseResult(DnsPacket_from_buffer(seek(ret.first.buf, 0)))]
    /\ UNCHANGED <<args, notCall>>

\* parsed.write(&mut BytePacketBuffer::new()) on the packet from_buffer returned
PacketWriteParsed ==
    /\ call = "from_buffer"
    /\ ret.parsed.err = Ok
    /\ call' = "write_parsed"
    /\ ret' = [first |-> ret.first, parsed |-> ret.parsed,
               second |-> DnsPacket_write(ret.parsed.v, NewBuffer)]
    /\ UNCHANGED <<args, notCall>>

PacketWriteNext == PacketWrite \/ PacketWriteAgain \/ PacketParse \/ PacketWriteParsed

----------------------------------------------------------------------------
(* The specifications, one per subsystem                                   *)

InitHeader ==
    /\ HeaderInit /\ QnameIdle /\ CodecIdle /\ ClientIdle /\ ResolverIdle /\ PoolIdle
    /\ TaskIdle /\ ListenIdle /\ CallIdle
SpecHeader == InitHeader /\ [][HeaderNext]_vars

InitQname ==
    /\ QnameInit /\ HeaderIdle /\ CodecIdle /\ ClientIdle /\ ResolverIdle /\ PoolIdle
    /\ TaskIdle /\ ListenIdle /\ CallIdle
SpecQname == InitQname /\ [][QnameNext]_vars

InitCodec ==
    /\ CodecInit /\ HeaderIdle /\ QnameIdle /\ ClientIdle /\ ResolverIdle /\ PoolIdle
    /\ TaskIdle /\ ListenIdle /\ CallIdle
SpecCodec == InitCodec /\ [][CodecNext]_vars

InitClient ==
    /\ ClientInit /\ HeaderIdle /\ QnameIdle /\ CodecIdle /\ ResolverIdle /\ PoolIdle
    /\ TaskIdle /\ ListenIdle /\ CallIdle
SpecClient == InitClient /\ [][ClientNext]_vars
SpecClientFair == InitClient /\ [][ClientNext]_vars /\ ClientFairness

\* the client when every request is for the same name
InitClientIds == InitClient /\ jobs = [i \in 1..MaxJobs |-> Name_c]
SpecClientIds == InitClientIds /\ [][ClientNext]_vars

InitResolver ==
    /\ ResolverInit /\ HeaderIdle /\ QnameIdle /\ CodecIdle /\ ClientIdle /\ PoolIdle
    /\ TaskIdle /\ ListenIdle /\ CallIdle
SpecResolver == InitResolver /\ [][ResolverNext]_vars

\* the resolvers when every server has the address of "c"
InitResolverC ==
    /\ InitResolver
    /\ \A server \in Servers : zone[<<server, Name_c>>] = "address"
SpecResolverC == InitResolverC /\ [][ResolverNext]_vars

InitPool ==
    /\ PoolInit /\ HeaderIdle /\ QnameIdle /\ CodecIdle /\ ClientIdle /\ ResolverIdle
    /\ TaskIdle /\ ListenIdle /\ CallIdle
SpecPool == InitPool /\ [][PoolNext]_vars

InitTask ==
    /\ TaskInit /\ HeaderIdle /\ QnameIdle /\ CodecIdle /\ ClientIdle /\ ResolverIdle
    /\ PoolIdle /\ ListenIdle /\ CallIdle
SpecTask == InitTask /\ [][TaskNext]_vars

InitBufferOps == BufferOpsInit /\ OthersIdle
SpecBufferOps == InitBufferOps /\ [][BufferOpsNext]_vars

InitNextHop == NextHopInit /\ OthersIdle
SpecNextHop == InitNextHop /\ [][NextHopNext]_vars

InitRandomA == RandomAInit /\ OthersIdle
SpecRandomA == InitRandomA /\ [][RandomANext]_vars

InitNames == NamesInit /\ OthersIdle
SpecNames == InitNames /\ [][NamesNext]_vars

InitRecordWrite == RecordWriteInit /\ OthersIdle
SpecRecordWrite == InitRecordWrite /\ [][RecordWriteNext]_vars

\* the resolvers when the root server answers for "a.b" with a reply given
\* by its bytes, or with a referral
WireZones ==
    { [x \in Servers \X ZoneNames |->
          IF x = <<RootServer, Name_ab>> THEN k
          ELSE IF x[2] = Name_c THEN c ELSE o] :
        k \in DOMAIN WireReplies \cup {"refer_other", "refer_name"},
        c \in {"address", "nxdomain", "servfail", "error", "rcode9"},
        o \in {"address", "rcode7"} }

InitResolverW ==
    /\ zone \in WireZones
    /\ query \in {DnsQuestion_new(Name_ab, QT("A")), DnsQuestion_new(Name_ab, QT("NS")),
                  DnsQuestion_new(Name_ab, QT_UNKNOWN(16))}
    /\ mode \in ResolverMode
    /\ frames = <<>>
    /\ outcome = None
    /\ outbound = <<>>
    /\ HeaderIdle /\ QnameIdle /\ CodecIdle /\ ClientIdle /\ PoolIdle
    /\ TaskIdle /\ ListenIdle /\ CallIdle
SpecResolverW == InitResolverW /\ [][ResolverNext]_vars

InitPacketWrite == PacketWriteInit /\ OthersIdle
SpecPacketWrite == InitPacketWrite /\ [][PacketWriteNext]_vars

InitListen ==
    /\ ListenInit /\ HeaderIdle /\ QnameIdle /\ CodecIdle /\ ClientIdle /\ ResolverIdle
    /\ PoolIdle /\ TaskIdle /\ CallIdle
SpecListen == InitListen /\ [][ListenNext]_vars

----------------------------------------------------------------------------
(* What a packet is on the wire, as the writers lay it out                 *)

\* write_qname: a length byte before each piece of split('.') and the null
\* byte, which makes two bytes more than the name has
NameLen(name) == Len(name) + 2

\* DnsQuestion::write: the name, the type and the class
QuestionLen(q) == NameLen(q.name) + 4

\* DnsRecord::write: the name, type, class, ttl and data length (10 bytes)
\* and the data; nothing at all for UNKNOWN
RecordLen(r) ==
    CASE r.type = "A" -> NameLen(r.domain) + 10 + 4
      [] r.type = "AAAA" -> NameLen(r.domain) + 10 + 16
      [] r.type = "NS" -> NameLen(r.domain) + 10 + NameLen(r.host)
      [] r.type = "CNAME" -> NameLen(r.domain) + 10 + NameLen(r.host)
      [] r.type = "MX" -> NameLen(r.domain) + 10 + 2 + NameLen(r.host)
      [] r.type = "UNKNOWN" -> 0

RECURSIVE QuestionsLen(_, _)
QuestionsLen(qs, k) == IF k = 0 THEN 0 ELSE QuestionLen(qs[k]) + QuestionsLen(qs, k - 1)

\* the first k records of the chain
RECURSIVE RecordsLen(_, _)
RecordsLen(recs, k) == IF k = 0 THEN 0 ELSE RecordLen(recs[k]) + RecordsLen(recs, k - 1)

\* the header, the questions and the first k records of the chain
PrefixLen(p, k) == 12 + QuestionsLen(p.questions, Len(p.questions)) + RecordsLen(Chain(p), k)

AllFit(p) == PrefixLen(p, Len(Chain(p))) <= MAX_SIZE

\* the length of the longest prefix of the chain that fits with the header
\* and the questions
FitCount(p) ==
    LET fits == {k \in 0..Len(Chain(p)) : PrefixLen(p, k) <= MAX_SIZE}
    IN  IF fits = {} THEN 0 ELSE CHOOSE k \in fits : \A j \in fits : j <= k

\* of the first k records of the chain, those at places lo + 1 .. hi that
\* have bytes in the output
Present(p, k, lo, hi) ==
    Cardinality({i \in (lo + 1)..hi : i <= k /\ RecordLen(Chain(p)[i]) > 0})

\* the 16-bit word at an offset of the output
U16At(buf, off) == At(buf, off) * 256 + At(buf, off + 1)

\* the four counts in the header bytes of the output against the questions
\* and the first k records of the chain that have bytes in the output
CountsMatch(p, buf, k) ==
    /\ U16At(buf, 4) = Len(p.questions)
    /\ U16At(buf, 6) = Present(p, k, 0, Len(p.answers))
    /\ U16At(buf, 8) = Present(p, k, Len(p.answers), Len(p.answers) + Len(p.authorities))
    /\ U16At(buf, 10) = Present(p, k, Len(p.answers) + Len(p.authorities), Len(Chain(p)))

\* the bytes after the header when the questions and the first k records of
\* the chain are laid out one after the other
BodyOf(p, k) ==
    LET s == write_records(Chain(p), k,
                 write_questions(p.questions, seek(NewBuffer, 12), 1), 1)
    IN  SubSeq(s.buf \o Zeros(s.head - Len(s.buf)), 13, s.head)

\* the bytes of the output after the header, up to the cursor
OutputBody(s) == SubSeq(s.buf \o Zeros(s.head - Len(s.buf)), 13, s.head)

Supported(p) == \A i \in 1..Len(Chain(p)) : Chain(p)[i].type # "UNKNOWN"

----------------------------------------------------------------------------
\* C1: after DnsPacket::write returned Ok, the answer, authority and
\* additional counts in the header bytes of the output equal the number of
\* records of each section present in the output bytes, and the question
\* count equals the number of questions written
C1_CountsMatchOutput ==
    (cphase # "new" /\ wres.err = Ok)
        => CountsMatch(pkt, wres.buf.buf, wres.record_count)

\* C2: for a packet whose header, questions and records do not all fit in
\* 512 bytes, DnsPacket::write returns Ok, the output has TC = 1, its body is
\* exactly the questions and the longest prefix of the records that fits, and
\* each section count in the output is the number of records of the section
\* in that prefix
C2_Truncation ==
    (cphase # "new" /\ ~AllFit(pkt))
        => /\ wres.err = Ok
           /\ Bit(At(wres.buf.buf, 2), 1) = 1
           /\ wres.buf.head = PrefixLen(pkt, FitCount(pkt))
           /\ OutputBody(wres.buf) = BodyOf(pkt, FitCount(pkt))
           /\ CountsMatch(pkt, wres.buf.buf, FitCount(pkt))

\* C8: for a packet of supported record types that fits in 512 bytes,
\* DnsPacket::from_buffer on the bytes DnsPacket::write produced yields the
\* packet: the same header, questions, answers, authorities and additionals
C8_PacketRoundTrip ==
    (cphase = "parsed" /\ Supported(pkt) /\ AllFit(pkt))
        => (rres.err = Ok /\ rres.v = wres.pkt)

----------------------------------------------------------------------------
\* C9: reading the 12 bytes DnsHeader::write produced gives back the header:
\* the same id, flags, opcode, rescode and counts, for every opcode in 0..15
C9_HeaderRoundTrip == hphase = "read" => hback = hdr

\* C7: read_qname follows at most 255 compression pointers
C7_PointerFollowsBounded == ql.jumps <= 255

\* C10: write_qname(lower(n)) followed by read_qname from the offset the
\* name was written at yields lower(n), whenever the encoding fits
C10_NameRoundTrip ==
    (qphase = "read" /\ qn # NoName) => (ql.status = "done" /\ ql.qname = Lower(qn))

----------------------------------------------------------------------------
\* C3: the packet a call of send_query returns is the reply to the query of
\* that call: it carries the id the caller put in its request and the name
\* the caller asked for, whatever the other workers do on the shared client
C3_ExclusiveExchange ==
    \A w \in Callers :
        (callers[w].pc = "returned" /\ callers[w].result[1].ok)
            => /\ callers[w].result[1].v.header.id = callers[w].id
               /\ callers[w].result[1].v.questions[1].name = callers[w].qname

\* C5: a worker that waits for the reply of the upstream server does not
\* wait for ever: the exchange ends, with the reply or with an error
C5_ReceiveDeadline ==
    \A w \in Callers : (callers[w].pc = "recv_from") ~> (callers[w].pc # "recv_from")

\* C4: a call of execute follows at most 16 referrals, and at most 8 calls
\* of resolve are nested in the call execute_query makes
C4_ResolverBounded ==
    /\ Len(frames) - 1 <= 8
    /\ \A i \in 1..Len(frames) : frames[i].referrals <= 16

\* C6: whatever the tasks do, every worker of the pool is alive
C6_WorkersSurvive == \A w \in Workers : workers[w].at # "dead"

----------------------------------------------------------------------------
\* C11: the id counter is the number of queries built since NetworkClient::new
\* modulo 2^16 (it starts at 0, each query adds exactly 1, 65535 is followed
\* by 0), the id of a query is its number modulo 2^16, and no two callers
\* hold the same query number, hence not the same id
C11_IdsSequential ==
    /\ pid_seq = queries % 65536
    /\ \A w \in Callers :
           callers[w].pc # "idle"
               => /\ callers[w].nth < queries
                  /\ callers[w].id = callers[w].nth % 65536
    /\ \A w1, w2 \in Callers :
           (w1 # w2 /\ callers[w1].pc # "idle" /\ callers[w2].pc # "idle")
               => /\ callers[w1].nth # callers[w2].nth
                  /\ callers[w1].id # callers[w2].id

\* two callers wait for their replies, one with id 65535 and one with id 0
C11_Wrapped ==
    \E w1, w2 \in Callers :
        /\ callers[w1].pc = "recv_from" /\ callers[w1].id = 65535
        /\ callers[w2].pc = "recv_from" /\ callers[w2].id = 0

\* C15: for either resolver, resolve with a query type UNKNOWN(n) returns Ok
\* with a packet whose response code is NOTIMP and whose four sections are
\* empty, and no query is sent: no call of execute is in progress and the
\* client has been asked for nothing
C15_UnknownIsNotImp ==
    query.qtype.t = "UNKNOWN"
        => /\ frames = <<>>
           /\ outbound = <<>>
           /\ outcome # None
                  => /\ outcome[1].ok
                     /\ outcome[1].v.header.rescode = NOTIMP
                     /\ outcome[1].v.questions = <<>>
                     /\ outcome[1].v.answers = <<>>
                     /\ outcome[1].v.authorities = <<>>
                     /\ outcome[1].v.resources = <<>>

\* resolve has returned for a query of type UNKNOWN(16) to the forwarding
\* resolver whose server has an address for the name
C15_UnknownResolved ==
    /\ query.qtype.t = "UNKNOWN"
    /\ mode = "Forwarding"
    /\ zone[<<OtherServer, query.name>>] = "address"
    /\ outcome # None


\* C20: sends on the listening socket of the UDP server never interleave:
\* at most one task is inside send_to at a time, and a task that is inside
\* send_to holds the lock of the socket
C20_SendsExclusive ==
    /\ \A w1, w2 \in Senders :
           (senders[w1] = "send_to" /\ senders[w2] = "send_to") => w1 = w2
    /\ \A w \in Senders : senders[w] \in {"send_to", "sent"} => socket_ptr = w

\* a task is inside send_to, another waits for the lock, and the last
\* datagram was received while the first held the lock
C20_ReceivedDuringSend ==
    \E w1, w2 \in Senders :
        /\ senders[w1] = "send_to"
        /\ senders[w2] = "lock"
        /\ accepted # <<>>
        /\ accepted[Len(accepted)] = w1


\* the bytes of a buffer from offset 0 up to its cursor
UsedPrefix(b) == [i \in 1..b.head |-> At(b.buf, i - 1)]

\* C12: the UDP task answers a datagram that parses with exactly one
\* datagram, the bytes of the response buffer from 0 up to the cursor, for
\* every size of the response from 12 to 512 bytes: when the task is over,
\* its response was written and send_to did not fail, that datagram is what
\* was sent
C12_UdpReplySent ==
    (transport = "udp" /\ tpc = "done" /\ res_buffer # None /\ io # "fails")
        => replies = <<UsedPrefix(res_buffer[1])>>

\* C13: the TCP task answers a request that parses with the two bytes of the
\* length of the response and then the bytes of the response, the content of
\* the growable buffer from 0 up to the cursor, for every length: when the
\* task is over, its response was written and no write to the stream
\* failed, these two are what was written
C13_TcpReplyWritten ==
    (transport = "tcp" /\ tpc = "done" /\ res_buffer # None /\ io # "fails")
        => replies = <<LenPrefix(res_buffer[1].head), UsedPrefix(res_buffer[1])>>

\* C14: DnsPacket::write into the growable buffer of the TCP task never sets
\* the TC bit and never drops a record: after the call the bit is clear and
\* the header counts every record of the three sections
C14_TcpNotTruncated ==
    (transport = "tcp" /\ res_buffer # None)
        => /\ ~response[1].header.truncated_message
           /\ response[1].header.answers = Len(response[1].answers)
           /\ response[1].header.authoritative_entries = Len(response[1].authorities)
           /\ response[1].header.resource_entries = Len(response[1].resources)

\* C16: for a request without a question execute_query calls no resolver, so
\* no query goes out, and its response has the code FORMERR, no question and
\* no record
C16_NoQuestionIsFormErr ==
    (request # None /\ request[1].questions = <<>>)
        => /\ resolves = 0
           /\ result = None
           /\ response # None
                  => /\ response[1].header.rescode = FORMERR
                     /\ response[1].questions = <<>>
                     /\ response[1].answers = <<>>
                     /\ response[1].authorities = <<>>
                     /\ response[1].resources = <<>>

\* the UDP task has answered a request without a question
C16_FormErrSent ==
    /\ transport = "udp"
    /\ request # None
    /\ request[1].questions = <<>>
    /\ tpc = "done"
    /\ Len(replies) = 1

\* C17: a failure of the exchange with the name server comes back from the
\* transport client as an error, and execute_query answers it with the code
\* SERVFAIL and no record; it never ends the task without a response
C17_TransportFailureIsServfail ==
    (result # None /\ result[1].event \in TransportFailures)
        => /\ result[1].kind = "err"
           /\ tpc \notin {"panicked", "blocked"}
           /\ response # None
           /\ response[1].header.rescode = SERVFAIL
           /\ response[1].answers = <<>>
           /\ response[1].authorities = <<>>
           /\ response[1].resources = <<>>

\* C18: a response of execute_query has the id and the RD bit of the
\* request, QR set and RA as context.allow_recursion, however the resolution
\* went; when the resolver returned a packet, the response has the first
\* question of the request alone, the code of the packet and its answers,
\* authorities and additionals in their order
C18_ResponseOfRequest ==
    response # None
        => /\ response[1].header.id = request[1].header.id
           /\ response[1].header.response
           /\ response[1].header.recursion_desired = request[1].header.recursion_desired
           /\ response[1].header.recursion_available = allow_recursion
           /\ (result # None /\ result[1].kind = "ok")
                  => /\ response[1].questions = <<request[1].questions[1]>>
                     /\ response[1].header.rescode = result[1].v.header.rescode
                     /\ response[1].answers = result[1].v.answers
                     /\ response[1].authorities = result[1].v.authorities
                     /\ response[1].resources = result[1].v.resources

\* the UDP task has answered a request of two questions for which the
\* resolver returned two answers, an authority and two additionals
C18_SectionsCopied ==
    /\ transport = "udp"
    /\ tpc = "done"
    /\ Len(replies) = 1
    /\ Len(request[1].questions) = 2
    /\ result[1].kind = "ok"
    /\ Len(result[1].v.answers) = 2
    /\ Len(result[1].v.authorities) = 1
    /\ Len(result[1].v.resources) = 2

\* C19: when from_buffer returns an error for the datagram or the request,
\* the task sends nothing, calls no resolver and returns
C19_ParseErrorDropsRequest ==
    (req_buffer # None /\ req_buffer[1].err \notin {Ok, Diverges})
        => /\ tpc = "done"
           /\ replies = <<>>
           /\ resolves = 0
           /\ result = None
           /\ request = None
           /\ response = None

\* the TCP task is over after a request whose name points past its end
C19_BadRequestDropped ==
    /\ transport = "tcp"
    /\ req_buffer # None
    /\ req_buffer[1].err = EndOfBuffer
    /\ tpc = "done"


\* the hosts of the NS records of the authorities whose domain the name
\* ends with
MatchingHosts(p, qname) ==
    {p.authorities[i].host :
        i \in {j \in 1..Len(p.authorities) :
                  /\ p.authorities[j].type = "NS"
                  /\ ends_with(qname, p.authorities[j].domain)}}

\* C29: get_resolved_ns returns the address of the first pair found, the
\* authorities scanned in order and for each NS record whose domain the name
\* ends with the additionals scanned in order for an A record of its host;
\* it returns none exactly when there is no such pair
C29_FirstGlue ==
    call = "get_resolved_ns"
        => ret = IF Glue(args.packet, args.qname) = {} THEN None
                 ELSE Some(args.packet.resources[
                               FirstPlace(Glue(args.packet, args.qname))[2]].addr)

\* get_resolved_ns has returned the first of two addresses of the name
\* server, which comes after an AAAA record of it
C29_SecondRecordFirstGlue ==
    /\ call = "get_resolved_ns"
    /\ Len(args.packet.resources) = 2
    /\ args.packet.resources[1].type = "AAAA"
    /\ Len(args.packet.authorities) = 2
    /\ args.packet.authorities[1].domain = Name_atest
    /\ ret = Some(OtherServer)

\* C30 as the specification has it: get_unresolved_ns returns a host only
\* when the packet has no glue address, the host is one of an NS record
\* whose domain the name ends with, and none is returned exactly when
\* there is no such record
C30_HostOnlyWithoutGlue ==
    call = "get_unresolved_ns"
        => /\ ret # None => /\ Glue(args.packet, args.qname) = {}
                            /\ ret[1] \in MatchingHosts(args.packet, args.qname)
           /\ ret = None <=> MatchingHosts(args.packet, args.qname) = {}

\* C30 as the code has it: get_unresolved_ns returns the host of an NS
\* record whose domain the name ends with, whether the packet has a glue
\* address or not, and none exactly when there is no such record
C30_HostOfMatchingNs ==
    call = "get_unresolved_ns"
        => /\ ret # None => ret[1] \in MatchingHosts(args.packet, args.qname)
           /\ ret = None <=> MatchingHosts(args.packet, args.qname) = {}

\* get_unresolved_ns has returned the second of two name servers of a
\* packet that has the address of the first
C30_SecondHostDespiteGlue ==
    /\ call = "get_unresolved_ns"
    /\ Cardinality(MatchingHosts(args.packet, args.qname)) = 2
    /\ Glue(args.packet, args.qname) # {}
    /\ Len(args.packet.authorities) = 2
    /\ ret = Some(args.packet.authorities[2].host)


\* C23: no operation of a buffer panics on an access out of range: a read
\* with the cursor at the end of the growable buffer, a get or a set of the
\* growable buffer at an offset past its end and a set of the fixed buffer
\* at 512 or more return an error
C23_OutOfRangeIsErr ==
    call \in {"read", "write", "get", "get_range", "set", "set_u16",
              "read_qname", "write_qname"}
        => ret # Panic


\* C24: the forwarding resolver makes exactly one call of send_query, to the
\* configured server for the name and the type of the query with recursion
\* desired, and returns what the call returned, a packet or an error; it
\* asks no other server and starts no loop
C24_ForwardsOnce ==
    mode = "Forwarding"
        => /\ frames = <<>>
           /\ outcome = None => outbound = <<>>
           /\ outcome # None /\ query.qtype.t # "UNKNOWN"
                  => /\ outbound = <<[server |-> OtherServer, qname |-> query.name,
                                      qtype |-> query.qtype, recursive |-> TRUE]>>
                     /\ outcome[1] = send_query(zone[<<OtherServer, query.name>>],
                                                query.name)

\* the forwarding resolver has returned the CNAME record its server
\* answered, and not the address the root server has for the name
C24_ForwardedCname ==
    /\ mode = "Forwarding"
    /\ query.qtype = QT("A")
    /\ zone[<<OtherServer, query.name>>] = "cname_c"
    /\ zone[<<RootServer, query.name>>] = "address"
    /\ outcome # None
    /\ outcome[1].ok
    /\ outcome[1].v.answers = <<RecCNAME(query.name, Name_c, U32(0, 300))>>
    /\ Len(outbound) = 1


\* the root server refers to a name server with its address and that server
\* has the address of the name
ReferralThenAnswer ==
    /\ mode = "Recursive"
    /\ query = DnsQuestion_new(Name_ab, QT("A"))
    /\ zone[<<RootServer, Name_ab>>] = "refer_other"
    /\ zone[<<OtherServer, Name_ab>>] = "address"

\* C26: in an iteration of the loop of RecursiveResolver::execute the
\* response is on its way to the caller (through the CNAME walk for type A)
\* exactly when it has an answer and NOERROR or it has NXDOMAIN; in every
\* other case the next step selects the next hop: the glue server, a nested
\* resolve, or the return of the response when it names no server.  With a
\* root server that refers with glue and a second server that answers, the
\* answer is returned with NOERROR after exactly two queries
C26_ReturnsWhenAnswered ==
    /\ [][frames # <<>> /\ frames[Len(frames)].pc = "received"
             => IF \/ /\ frames[Len(frames)].response.answers # <<>>
                      /\ frames[Len(frames)].response.header.rescode = NOERROR
                   \/ frames[Len(frames)].response.header.rescode = NXDOMAIN
                THEN /\ Len(frames') = Len(frames)
                     /\ frames'[Len(frames)].response = frames[Len(frames)].response
                     /\ frames'[Len(frames)].pc =
                            IF frames[Len(frames)].qtype = QT("A") THEN "cname" ELSE "return"
                ELSE \/ /\ Len(frames') = Len(frames)
                        /\ frames'[Len(frames)].pc = "send_query"
                     \/ /\ Len(frames') = Len(frames) + 1
                        /\ frames'[Len(frames)].pc = "recursive_response"
                     \/ /\ Len(frames') = Len(frames)
                        /\ frames'[Len(frames)].pc = "return"
                        /\ frames'[Len(frames)].response = frames[Len(frames)].response
                        /\ MatchingHosts(frames[Len(frames)].response,
                                         frames[Len(frames)].qname) = {}]_vars
    /\ [](ReferralThenAnswer /\ outcome # None
             => /\ outcome[1].ok
                /\ outcome[1].v.header.rescode = NOERROR
                /\ outcome[1].v.answers = <<RecA(Name_ab, OtherServer, U32(0, 300))>>
                /\ Len(outbound) = 2
                /\ outbound[1].server = RootServer
                /\ outbound[2].server = OtherServer)

\* the answer of the second server has been returned after two queries
C26_AnswerAfterTwoQueries ==
    /\ ReferralThenAnswer
    /\ outcome # None
    /\ outcome[1].ok
    /\ outcome[1].v.answers # <<>>
    /\ Len(outbound) = 2


IsCname(rec) == rec.type = "CNAME"

\* the answers of the responses of calls k, k + 1, ... one after the other
RECURSIVE AnswersFrom(_, _)
AnswersFrom(calls, k) ==
    IF k > Len(calls) THEN <<>>
    ELSE calls[k].response.answers \o AnswersFrom(calls, k + 1)

\* what the CNAME walk makes of the response received, given the calls of
\* resolve it made
Chased(received, calls) ==
    [received EXCEPT
        !.answers = @ \o AnswersFrom(calls, 1),
        !.header.answers = (@ + Len(AnswersFrom(calls, 1))) % 65536,
        !.header.rescode = IF calls = <<>> THEN @
                           ELSE calls[Len(calls)].response.header.rescode]

\* C27: a response that answers a query of type A is returned after one call
\* of resolve, for type A, for the host of each CNAME record of its answers,
\* in order: its answers are followed by the answers of the calls in order,
\* the count of answers of its header is raised by their number, its
\* response code is that of the last call, and nothing else of it changes;
\* the count is the length of the answers when it was so in the response
\* received.  For another type the response received is returned as it is
C27_CnameChase ==
    \A i \in 1..Len(frames) :
        /\ frames[i].pc = "return"
        /\ \/ /\ frames[i].received.answers # <<>>
              /\ frames[i].received.header.rescode = NOERROR
           \/ frames[i].received.header.rescode = NXDOMAIN
        => IF frames[i].qtype = QT("A")
           THEN /\ Len(frames[i].chased)
                       = Len(SelectSeq(frames[i].received.answers, IsCname))
                /\ \A k \in 1..Len(frames[i].chased) :
                       /\ frames[i].chased[k].qname
                              = SelectSeq(frames[i].received.answers, IsCname)[k].host
                       /\ frames[i].chased[k].qtype = QT("A")
                /\ frames[i].response = Chased(frames[i].received, frames[i].chased)
                /\ frames[i].received.header.answers = Len(frames[i].received.answers)
                       => frames[i].response.header.answers
                              = Len(frames[i].response.answers)
           ELSE frames[i].response = frames[i].received

\* a response with two CNAME records is about to be returned: the first
\* call of resolve returned NXDOMAIN, the second an address with NOERROR
C27_TwoCnamesChased ==
    /\ frames # <<>>
    /\ frames[1].pc = "return"
    /\ Len(frames[1].chased) = 2
    /\ frames[1].chased[1].response.header.rescode = NXDOMAIN
    /\ frames[1].chased[2].response.header.rescode = NOERROR
    /\ frames[1].response.header.rescode = NOERROR
    /\ Len(frames[1].response.answers) = 3
    /\ frames[1].response.header.answers = 3


\* the response of a call does not answer its query
Unanswered(f) ==
    ~ \/ f.response.answers # <<>> /\ f.response.header.rescode = NOERROR
      \/ f.response.header.rescode = NXDOMAIN

\* the addresses of the A records of a list of answers
AddressesOf(answers) ==
    {answers[k].addr : k \in {j \in 1..Len(answers) : answers[j].type = "A"}}

\* the step of the innermost call f, the caller of n - 1 calls, that has
\* received a response that does not answer its query
SelectsNextHop(f, n) ==
    IF get_resolved_ns(f.response, f.qname) # None
    THEN /\ frames' = [frames EXCEPT ![n] =
                           [f EXCEPT !.pc = "send_query",
                                     !.ns = get_resolved_ns(f.response, f.qname)[1],
                                     !.referrals = @ + 1]]
         /\ outbound' = outbound
    ELSE IF MatchingHosts(f.response, f.qname) = {}
    THEN frames' = [frames EXCEPT ![n] = [f EXCEPT !.pc = "return"]]
    ELSE /\ Len(frames') = n + 1
         /\ SubSeq(frames', 1, n) = [frames EXCEPT ![n] = [f EXCEPT !.pc = "recursive_response"]]
         /\ frames'[n + 1].qname \in MatchingHosts(f.response, f.qname)
         /\ frames'[n + 1].qtype = QT("A")
         /\ frames'[n + 1].pc = "send_query"
         /\ frames'[n + 1].ns = RootServer

\* the step in which the call g made for the name of a server returns to
\* its caller f, the caller of n - 1 calls
UsesAddress(f, g, n) ==
    /\ Len(frames') = n
    /\ SubSeq(frames', 1, n - 1) = SubSeq(frames, 1, n - 1)
    /\ \/ /\ frames'[n] = [f EXCEPT !.pc = "return"]
          /\ \E k \in 1..Len(g.response.answers) : g.response.answers[k].type # "A"
       \/ /\ frames'[n] = [f EXCEPT !.pc = "return"]
          /\ g.response.answers = <<>>
       \/ \E addr \in AddressesOf(g.response.answers) :
              frames'[n] = [f EXCEPT !.pc = "send_query", !.ns = addr,
                                     !.referrals = @ + 1]

\* C28: when a response does not answer the query, the loop continues with
\* the address get_resolved_ns gives, without any query in between; without
\* such an address it calls resolve, for type A, for a host get_unresolved_ns
\* gives, and returns the response unchanged when there is none; when the
\* call returns, the loop continues with an address of its answers or, when
\* the record chosen is no A record, returns the response unchanged; an
\* error of a nested call ends every call in progress with that error
C28_NextHopOrder ==
    [][/\ frames # <<>> /\ frames[Len(frames)].pc = "received"
              /\ Unanswered(frames[Len(frames)])
          => SelectsNextHop(frames[Len(frames)], Len(frames))
       /\ Len(frames) > 1 /\ frames[Len(frames)].pc = "return"
              /\ frames[Len(frames) - 1].pc = "recursive_response"
          => UsesAddress(frames[Len(frames) - 1], frames[Len(frames)], Len(frames) - 1)
       /\ Len(frames) > 1 /\ Len(frames') < Len(frames) - 1
          => frames' = <<>> /\ outcome' = Some(ErrOf)
       /\ frames' # <<>> /\ Len(frames) > 0 /\ frames'[Len(frames')].pc = "return"
              /\ frames[Len(frames)].pc # "cname"
              /\ Unanswered(frames'[Len(frames')])
          => frames'[Len(frames')].response = frames'[Len(frames')].received]_vars

\* the response that names a server without an address is about to be
\* returned to the caller: the call of resolve for the name of the server
\* returned no address
C28_NameServerWithoutAddress ==
    /\ Len(frames) = 1
    /\ frames[1].pc = "return"
    /\ Unanswered(frames[1])
    /\ get_resolved_ns(frames[1].response, frames[1].qname) = None
    /\ MatchingHosts(frames[1].response, frames[1].qname) = {Name_c}
    /\ frames[1].response = frames[1].received
    /\ Len(outbound) >= 2
    /\ outbound[Len(outbound)].qname = Name_c

\* C25: one send_query goes from the send on the UDP socket to the receive
\* on it, and from there to the TCP exchange (connect, send, receive) only
\* when the packet parsed from the datagram has TC set; with TC clear it
\* returns that packet and opens no connection; with TC set it returns what
\* the TCP exchange gives, the packet parsed from its reply or its error
C25_SendQueryOrdered ==
    [][\A w \in Callers :
          /\ callers[w].pc = "idle" => callers'[w].pc \in {"idle", "recv_from", "returned"}
          /\ callers[w].pc = "idle" /\ callers'[w].pc = "returned"
                 => callers'[w].result = Some(ErrOf)
          /\ callers[w].pc = "recv_from"
                 => \/ callers'[w] = callers[w]
                    \/ /\ socket # <<>>
                       /\ socket' = Tail(socket)
                       /\ IF socket[1].header.truncated_message
                          THEN callers'[w].pc = "tcp" /\ callers'[w].result = None
                          ELSE /\ callers'[w].pc = "returned"
                               /\ callers'[w].result = Some(OkOf(socket[1]))
          /\ callers[w].pc = "tcp"
                 => \/ callers'[w] = callers[w]
                    \/ /\ callers'[w].pc = "returned"
                       /\ callers'[w].result # None
                       /\ callers'[w].result[1].ok
                              => /\ ~callers'[w].result[1].v.header.truncated_message
                                 /\ callers'[w].result[1].v.header.id = pid_seq
                                 /\ callers'[w].result[1].v.questions[1].name
                                        = callers[w].qname
          /\ callers[w].pc = "returned" => callers'[w].pc \in {"returned", "idle"}]_vars

\* the first caller has returned the packet of the TCP reply to its second
\* query, the second waits for a datagram
C25_TcpReplyReturned ==
    /\ callers[1].pc = "returned"
    /\ callers[1].result # None
    /\ callers[1].result[1].ok
    /\ callers[1].nth = queries - 1
    /\ callers[1].result[1].v.header.id = callers[1].id
    /\ Len(jobs) = MaxJobs - 2
    /\ queries \in {3, 65537}
    /\ callers[2].pc = "recv_from"

\* the numbers of the tasks in the channel and of the tasks the workers
\* have received
QueuedTasks == {receiver[i].n : i \in {j \in 1..Len(receiver) : receiver[j] # Terminate}}
TakenTasks == UNION {{workers[w].taken[i] : i \in 1..Len(workers[w].taken)} : w \in Workers}

\* C21: every task passed to execute is in the channel or has been received
\* by exactly one worker, exactly once; the tasks are received in the order
\* of the calls of execute, so every task received is older than every task
\* in the channel; and no task is lost: a task in the channel has a worker
\* whose thread has not ended, and a task a worker received has run, to its
\* end or to its panic, or is the one the worker runs
C21_TasksRunOnce ==
    /\ QueuedTasks \cup TakenTasks = 1..incoming
    /\ QueuedTasks \cap TakenTasks = {}
    /\ \A w1, w2 \in Workers :
           \A i \in 1..Len(workers[w1].taken), j \in 1..Len(workers[w2].taken) :
               workers[w1].taken[i] = workers[w2].taken[j] => w1 = w2 /\ i = j
    /\ \A n \in QueuedTasks, m \in TakenTasks : m < n
    /\ \A i, j \in 1..Len(receiver) :
           i < j /\ receiver[i] # Terminate /\ receiver[j] # Terminate
               => receiver[i].n < receiver[j].n
    /\ QueuedTasks # {} => ~Disconnected
    /\ \A w \in Workers :
           Len(workers[w].taken)
               = workers[w].ran
                     + (IF workers[w].at = "dead" THEN 1 ELSE 0)
                     + (IF workers[w].at = "task" /\ workers[w].task[1] # Terminate
                        THEN 1 ELSE 0)

\* C22: Drop::drop sends one Terminate for each worker and joins the thread
\* of each worker without a panic; when it is over every worker has left
\* its loop on a Terminate, the channel is empty, so each worker took
\* exactly one Terminate, and every task sent before has run; no task is
\* behind a Terminate in the channel
C22_DropJoinsWorkers ==
    /\ pool.at # "panicked"
    /\ pool.sent <= NumWorkers
    /\ pool.at \in {"join", "dropped"} => pool.sent = NumWorkers
    /\ \A i, j \in 1..Len(receiver) :
           i < j /\ receiver[i] = Terminate => receiver[j] = Terminate
    /\ \A w \in Workers : workers[w].at = "exited" => pool.at # "serving"
    /\ pool.at = "dropped"
           => /\ \A w \in Workers : workers[w].at = "exited"
              /\ receiver = <<>>
              /\ pool.joined = NumWorkers
              /\ TakenTasks = 1..incoming
              /\ \A w \in Workers : workers[w].ran = Len(workers[w].taken)

----------------------------------------------------------------------------
\* C31: get_random_a returns the address of an A record of the answers
\* whenever the answers have one, whatever other records they hold, and none
\* only when the answers have no A record
C31_PicksAnARecord ==
    call = "get_random_a"
        => /\ ret # None => ret[1] \in AddressesOf(args.packet.answers)
           /\ ret = None <=> AddressesOf(args.packet.answers) = {}

\* the first place from offset at where the labels of buf end, pointers
\* not followed: at a zero byte, at a pointer, or at the end of the buffer
RECURSIVE LabelsEnd(_, _)
LabelsEnd(buf, at) ==
    IF at >= MAX_SIZE THEN [kind |-> "end", at |-> at]
    ELSE IF At(buf, at) >= 192 THEN [kind |-> "pointer", at |-> at]
    ELSE IF At(buf, at) = 0 THEN [kind |-> "zero", at |-> at]
    ELSE LabelsEnd(buf, at + 1 + At(buf, at))

\* the labels of the name at offset at of buf, pointers followed, at most
\* fuel labels and pointers
RECURSIVE LabelsAt(_, _, _)
LabelsAt(buf, at, fuel) ==
    IF fuel = 0 \/ at >= MAX_SIZE \/ At(buf, at) = 0 THEN <<>>
    ELSE IF At(buf, at) >= 192
    THEN LabelsAt(buf, (At(buf, at) - 192) * 256 + At(buf, at + 1), fuel - 1)
    ELSE <<[i \in 1..At(buf, at) |-> At(buf, at + i)]>>
         \o LabelsAt(buf, at + 1 + At(buf, at), fuel - 1)

\* the labels joined with dots
RECURSIVE Joined(_)
Joined(labels) ==
    IF labels = <<>> THEN <<>>
    ELSE IF Len(labels) = 1 THEN labels[1]
    ELSE labels[1] \o <<DOT>> \o Joined(Tail(labels))

MaxNameParts == 8

\* C32: when read_qname returns a name, the cursor is one byte past the zero
\* byte that ends the labels if the labels at the start offset end in a
\* zero byte, and two bytes past the first pointer if they end in a
\* pointer, whatever pointers follow; the name is the lowercased labels
\* joined with dots, with no dot before the first or after the last label
C32_CursorAfterName ==
    (call = "read_qname" /\ ret.s.err = Ok) =>
        /\ LabelsEnd(ret.s.buf, args.at).kind = "zero"
             => ret.s.head = LabelsEnd(ret.s.buf, args.at).at + 1
        /\ LabelsEnd(ret.s.buf, args.at).kind = "pointer"
             => ret.s.head = LabelsEnd(ret.s.buf, args.at).at + 2
        /\ LabelsEnd(ret.s.buf, args.at).kind # "end"
        /\ ret.v = Lower(Joined(LabelsAt(ret.s.buf, args.at, MaxNameParts)))
        /\ ret.s.buf = ret.written.buf

\* "example" at offset 12 and a pointer to it at offset 28, read from
\* offset 28: the name is "example" and the cursor is 30
C32_ExamplePointer ==
    /\ call = "read_qname"
    /\ args.at = 28
    /\ SubSeq(args.buf, 13, 21) = ExampleLabel \o <<0>>
    /\ SubSeq(args.buf, 29, 30) = <<192, 12>>
    /\ ret.s.err = Ok
    /\ ret.v = Tail(ExampleLabel)
    /\ ret.s.head = 30

\* each label as its length byte followed by its bytes
RECURSIVE EncodedLabels(_)
EncodedLabels(labels) ==
    IF labels = <<>> THEN <<>>
    ELSE <<Len(labels[1])>> \o labels[1] \o EncodedLabels(Tail(labels))

\* the labels before the first label longer than 63 bytes
LabelsBeforeLong(labels) ==
    SubSeq(labels, 1,
           Cardinality({i \in 1..Len(labels) :
                           \A j \in 1..i : Len(labels[j]) <= MAX_LABEL_LEN}))

\* the bytes of buf from offset at up to the cursor
BytesFrom(s, at) == [i \in 1..(s.head - at) |-> At(s.buf, at + i - 1)]

\* C33: write_qname on a fresh buffer leaves, from the start offset up to
\* the cursor, the pieces of the name between the dots, each as its length
\* byte followed by its bytes, and one zero byte after the last, and returns
\* Ok, when no piece is longer than 63 bytes and the bytes fit; when a piece
\* is longer than 63 bytes it returns Err, the pieces before that one are
\* written with the cursor after them, and no byte of the long piece is
\* written: the buffer is untouched from the cursor on
C33_LabelsOrError ==
    call = "write_qname" =>
        /\ ( /\ LabelsBeforeLong(Split(args.name)) = Split(args.name)
             /\ args.at + Len(EncodedLabels(Split(args.name))) + 1 <= MAX_SIZE )
             => /\ ret.err = Ok
                /\ BytesFrom(ret, args.at) = EncodedLabels(Split(args.name)) \o <<0>>
        /\ LabelsBeforeLong(Split(args.name)) # Split(args.name)
             => /\ ret.err = LabelTooLong
                /\ BytesFrom(ret, args.at)
                     = EncodedLabels(LabelsBeforeLong(Split(args.name)))
        /\ \A off \in 0..(MAX_SIZE - 1) :
             (off < args.at \/ off >= ret.head) => At(ret.buf, off) = 0

\* "w." followed by a label of 64 bytes: Err, with 01 77 written
C33_SecondLabelTooLong ==
    /\ call = "write_qname"
    /\ Len(Split(args.name)) = 2
    /\ Len(Split(args.name)[2]) = MAX_LABEL_LEN + 1
    /\ ret.err = LabelTooLong
    /\ ret.head = args.at + 2
    /\ BytesFrom(ret, args.at) = <<1, 119>>

\* C40: for every name write_qname accepts, read_qname from the offset the
\* name was written at returns Ok and leaves the cursor where write_qname
\* left it: the reader consumes the bytes the writer emitted
C40_SameExtent ==
    (call = "read_qname" /\ args.kind = "name") =>
        /\ ret.s.err = Ok
        /\ ret.s.head = ret.written.head

\* the number of bytes a name takes on the wire
EncodedLen(name) == Len(EncodedLabels(Split(name))) + 1

\* the data length a record has on the wire
DataLen(r) ==
    CASE r.type = "A" -> 4
      [] r.type = "AAAA" -> 16
      [] r.type = "MX" -> 2 + EncodedLen(r.host)
      [] r.type \in {"NS", "CNAME"} -> EncodedLen(r.host)

\* C34: when DnsRecord::write returns Ok for an A, AAAA, NS, CNAME or MX
\* record, the two bytes after name, type, class and ttl hold the data
\* length (4 for A, 16 for AAAA, the encoded length of host for NS and CNAME
\* and two more for MX), the cursor is after the data, that many bytes
\* further, and the number returned is the number of bytes from the cursor
\* before the call to the cursor after it; an UNKNOWN record writes nothing
\* and returns 0
C34_DataLengthPatched ==
    (call = "write" /\ ret.err = Ok) =>
        /\ ret.v = ret.s.head - args.buffer.head
        /\ args.record.type # "UNKNOWN" =>
             /\ U16At(ret.s.buf, args.buffer.head + EncodedLen(args.record.domain) + 8)
                  = DataLen(args.record)
             /\ ret.s.head = args.buffer.head + EncodedLen(args.record.domain) + 10
                                + DataLen(args.record)
        /\ args.record.type = "UNKNOWN" => (ret.v = 0 /\ ret.s = args.buffer)

\* the MX record of "a.test" with host "mail.a.test" written at offset 12:
\* the data length on the wire is 2 + 13
C34_MxOfMail ==
    /\ call = "write"
    /\ args.record.type = "MX"
    /\ args.record.host = Name_mail
    /\ args.record.domain = Name_atest
    /\ args.buffer.head = 12
    /\ ret.err = Ok
    /\ U16At(ret.s.buf, 12 + 8 + 8) = 15
    /\ ret.v = 8 + 10 + 15

\* what the root server answers for the name of the query: the number in
\* the RCODE bits of its reply and what the answers of the reply are
RootReply == WireReplies[zone[<<RootServer, query.name>>]]

\* the code a number in the RCODE bits is read as
ReadAs(n) ==
    CASE n = 0 -> NOERROR [] n = 1 -> FORMERR [] n = 2 -> SERVFAIL [] n = 3 -> NXDOMAIN
      [] n = 4 -> NOTIMP [] n = 5 -> REFUSED [] n \in 6..15 -> NOERROR

\* every reply to a call in progress that was given by its bytes has the
\* code its RCODE bits are read as
RcodesRead ==
    \A i \in 1..Len(frames) :
        ( /\ frames[i].pc = "received"
          /\ AnswerOf(zone, frames[i].ns, frames[i].qname) \in DOMAIN WireReplies )
        => frames[i].response.header.rescode
             = ReadAs(WireReplies[AnswerOf(zone, frames[i].ns, frames[i].qname)][1])

\* the recursive resolver has returned and the reply of the root server to
\* the query had an RCODE of 6 to 15 and an answer
CoercedReturned ==
    /\ outcome # None
    /\ mode = "Recursive"
    /\ query.qtype.t # "UNKNOWN"
    /\ zone[<<RootServer, query.name>>] \in DOMAIN WireReplies
    /\ RootReply[1] \in 6..15
    /\ RootReply[2] # "none"

\* the response execute_query builds for the client from what resolve returned
Relayed ==
    execute_query(RequestOf(4660, TRUE, <<query>>),
                  IF outcome[1].ok THEN [kind |-> "ok", v |-> outcome[1].v]
                  ELSE [kind |-> "err"])

\* C35 as the specification has it: the RCODE bits are read as 0..5 -> NOERROR, FORMERR,
\* SERVFAIL, NXDOMAIN, NOTIMP, REFUSED and 6..15 -> NOERROR, and an upstream
\* reply with RCODE 6..15 and at least one answer is a final answer of the
\* recursive resolver and is relayed to the client with RCODE NOERROR
C35_CoercedRelayedNoError ==
    /\ RcodesRead
    /\ CoercedReturned => (outcome[1].ok /\ Relayed.header.rescode = NOERROR)

\* C35 as the code has it: the RCODE bits are read as 0..5 -> NOERROR, FORMERR,
\* SERVFAIL, NXDOMAIN, NOTIMP, REFUSED and 6..15 -> NOERROR, and an upstream
\* reply with RCODE 6..15 and at least one answer is a final answer of the
\* recursive resolver: no other query is sent for the name.  It is relayed
\* with its answers and RCODE NOERROR after that one query when the query is
\* not for an address or the answer is no CNAME record; when the query is
\* for an address and the answer is a CNAME record, the RCODE relayed is that
\* of resolving the host of the record: NXDOMAIN when there is no such name,
\* SERVFAIL when its server fails or cannot be asked
C35_CoercedIsFinal ==
    /\ RcodesRead
    /\ CoercedReturned =>
         /\ outbound[1] = Sent(RootServer, query.name, query.qtype)
         /\ \A i \in 2..Len(outbound) : outbound[i].qname # query.name
         /\ (query.qtype.t # "A" \/ RootReply[2] # "cname") =>
              /\ Len(outbound) = 1
              /\ outcome[1].ok
              /\ Relayed.header.rescode = NOERROR
              /\ Relayed.answers = WireAnswers(RootReply[2], query.name)
         /\ (query.qtype.t = "A" /\ RootReply[2] = "cname") =>
              Relayed.header.rescode =
                CASE zone[<<RootServer, Name_c>>] = "nxdomain" -> NXDOMAIN
                  [] zone[<<RootServer, Name_c>>] \in {"servfail", "error"} -> SERVFAIL
                  [] OTHER -> NOERROR

\* the root server answers the query for an address with RCODE 15 and an
\* address, and the client is sent NOERROR with that address
C35_Rcode15Relayed ==
    /\ CoercedReturned
    /\ RootReply = <<15, "address">>
    /\ query.qtype.t = "A"
    /\ Len(outbound) = 1
    /\ Relayed.header.rescode = NOERROR
    /\ Relayed.answers = <<RecA(query.name, OtherServer, U32(0, 300))>>

\* C36: when DnsPacket::write returns Ok with the TC bit set in the output,
\* the header, the questions and the records of the packet do not all fit in
\* 512 bytes; when they do fit, TC is clear and no record is left out
C36_TruncatedOnlyWhenFull ==
    (call = "write" /\ ret.first.err = Ok) =>
        /\ Bit(At(ret.first.buf.buf, 2), 1) = 1 => ~AllFit(args.packet)
        /\ AllFit(args.packet) => ret.first.record_count = Len(Chain(args.packet))

\* the counts of the header are the lengths of the record lists
CountsAreLengths(p) ==
    /\ p.header.questions = Len(p.questions)
    /\ p.header.answers = Len(p.answers)
    /\ p.header.authoritative_entries = Len(p.authorities)
    /\ p.header.resource_entries = Len(p.resources)

\* C38: a packet written a second time gives the bytes of the first time,
\* a packet from_buffer returned gives the bytes it was parsed from, and
\* after every call of write that returned Ok the counts in the header of
\* the packet are the lengths of its lists
C38_WriteIdempotent ==
    /\ (call = "write" /\ ret.first.err = Ok) => CountsAreLengths(ret.first.pkt)
    /\ (call \in {"write_again", "write_parsed"} /\ ret.second.err = Ok) =>
          /\ ret.second.buf.buf = ret.first.buf.buf
          /\ CountsAreLengths(ret.second.pkt)

\* C37: the lock of the receiver is held by a worker only while it is in
\* recv, never by a worker that runs a task; so whatever tasks are running,
\* a worker that wants the lock gets it when no worker is in recv, and a
\* worker in recv takes the next message when there is one
C37_LockOnlyInRecv ==
    /\ \A w \in Workers :
          /\ lock = w => workers[w].at = "recv"
          /\ workers[w].at = "task" => lock # w
    /\ \A v \in Workers :
          /\ ( /\ workers[v].at = "lock"
               /\ \A u \in Workers : workers[u].at # "recv" ) => lock = Unlocked
          /\ (workers[v].at = "recv" /\ receiver # <<>>) => lock = v

\* every worker runs a task at the same time
C37_AllWorkersBusy ==
    \A w \in Workers :
        /\ workers[w].at = "task"
        /\ workers[w].task # None
        /\ workers[w].task[1] # Terminate

\* the domain is the name, or the name continues before the domain with a
\* dot, or the domain is the root
ZoneOf(domain, qname) ==
    \/ domain = <<>>
    \/ domain = qname
    \/ ends_with(qname, <<DOT>> \o domain)

\* C39: the host get_unresolved_ns returns and the address get_resolved_ns
\* returns are those of an NS record of the authorities whose domain is the
\* name asked for or an ancestor of it, the root included
C39_ZoneAtLabelBoundary ==
    /\ (call = "get_unresolved_ns" /\ ret # None) =>
          \E i \in 1..Len(args.packet.authorities) :
              /\ args.packet.authorities[i].type = "NS"
              /\ ZoneOf(args.packet.authorities[i].domain, args.qname)
              /\ args.packet.authorities[i].host = ret[1]
    /\ (call = "get_resolved_ns" /\ ret # None) =>
          \E i \in 1..Len(args.packet.authorities) :
              /\ args.packet.authorities[i].type = "NS"
              /\ ZoneOf(args.packet.authorities[i].domain, args.qname)
              /\ \E j \in 1..Len(args.packet.resources) :
                    /\ args.packet.resources[j].type = "A"
                    /\ args.packet.resources[j].domain = args.packet.authorities[i].host
                    /\ args.packet.resources[j].addr = ret[1]


=============================================================================
